---- MODULE Spec2Model ----
(***************************************************************************)
(* A model of the string-to-integer routines of lexical-core               *)
(* (lexical-core/src/atoi.rs): the digit decoder, the checked integer      *)
(* accumulator `standalone`, its unsigned / signed front ends, the strict  *)
(* and leading surfaces generated over them, and the saturating exponent   *)
(* parser `standalone_exponent`.                                           *)
(*                                                                         *)
(* Bytes are the integers 0..255.  A byte slice is a sequence of bytes; a  *)
(* pointer into the slice is modelled by its 0-based byte index, which is  *)
(* what `distance(bytes.as_ptr(), ptr)` computes in the front ends.        *)
(***************************************************************************)
EXTENDS Integers, Sequences, FiniteSets, TLC

VARIABLES
    op,       \* which routine the call in progress is: "atoi", "digit", "exponent"
    ty,       \* the destination integer type T of the call
    radix,    \* the radix argument
    bytes,    \* the input slice
    pc,       \* "ready" before the call, "done" after it
    surface,  \* the routine that produced `result`
    result    \* the value returned by the call

vars == <<op, ty, radix, bytes, pc, surface, result>>

(***************************************************************************)
(* Bounds of the model.                                                    *)
(***************************************************************************)
\* Longest input drawn from the free alphabet.
MaxLen == 3
\* How far around a type boundary (0, the signed maximum, the unsigned
\* maximum) the magnitudes of the formatted inputs reach.
Near == 2
\* Longest tail appended after a formatted number.
MaxTail == 1

(***************************************************************************)
(* Byte literals used by the code.                                         *)
(***************************************************************************)
PLUS == 43
MINUS == 45
ZERO_CH == 48
NINE_CH == 57
UPPER_A == 65
UPPER_Z == 90
LOWER_A == 97
LOWER_Z == 122
SPACE == 32

MIN_RADIX == 2
MAX_RADIX == 36
Radices == MIN_RADIX..MAX_RADIX
Byte == 0..255

(***************************************************************************)
(* Integer types.  T::ZERO is 0; a type is its signedness and its width.   *)
(***************************************************************************)
U8 == [signed |-> FALSE, bits |-> 8]
I8 == [signed |-> TRUE, bits |-> 8]
U16 == [signed |-> FALSE, bits |-> 16]
I16 == [signed |-> TRUE, bits |-> 16]
I32 == [signed |-> TRUE, bits |-> 32]

I32_MAX == 2147483647
I32_MIN == -2147483647 - 1

max_value(T) ==
    IF T.signed
    THEN (IF T.bits = 8 THEN 127 ELSE IF T.bits = 16 THEN 32767 ELSE I32_MAX)
    ELSE (IF T.bits = 8 THEN 255 ELSE 65535)

min_value(T) ==
    IF T.signed
    THEN (IF T.bits = 8 THEN -128 ELSE IF T.bits = 16 THEN -32768 ELSE I32_MIN)
    ELSE 0

(***************************************************************************)
(* Option values.                                                          *)
(***************************************************************************)
None == [some |-> FALSE, v |-> 0]
Some(x) == [some |-> TRUE, v |-> x]

(***************************************************************************)
(* Checked arithmetic of the destination type.  The result is None exactly *)
(* when the mathematical result is outside min_value(T)..max_value(T).     *)
(* The tests divide instead of multiplying so that no intermediate value   *)
(* leaves the 32-bit range of the checker's own integers; b is a radix     *)
(* (2..36) and d a digit (0..35).                                          *)
(***************************************************************************)
\* Mutants: arithmetic that wraps around instead of reporting the overflow.
wrap(T, x) ==
    LET m == IF T.bits = 8 THEN 256 ELSE 65536
    IN  ((x - min_value(T)) % m) + min_value(T)

wrapping_mul(T, a, b) == Some(wrap(T, a * b))

wrapping_add(T, a, d) == Some(wrap(T, a + d))

checked_mul(T, a, b) ==
    LET hi == max_value(T) \div b
        \* -(min_value(T)) \div b, computed without negating min_value(T)
        lo == IF min_value(T) = 0 THEN 0
              ELSE hi + (IF (max_value(T) % b) + 1 = b THEN 1 ELSE 0)
    IN  IF a > hi \/ a < -lo THEN None ELSE Some(a * b)

checked_add(T, a, d) ==
    IF a > max_value(T) - d THEN None ELSE Some(a + d)

checked_sub(T, a, d) ==
    IF a < min_value(T) + d THEN None ELSE Some(a - d)

(***************************************************************************)
(* to_digit!: (c as char).to_digit(radix).                                 *)
(***************************************************************************)
\* Mutant: a digit equal to the radix is accepted.
to_digit_inclusive(c, r) ==
    LET val == IF c >= ZERO_CH /\ c <= NINE_CH THEN c - ZERO_CH
               ELSE IF c >= LOWER_A /\ c <= LOWER_Z THEN c - LOWER_A + 10
               ELSE IF c >= UPPER_A /\ c <= UPPER_Z THEN c - UPPER_A + 10
               ELSE -1
    IN  IF val >= 0 /\ val <= r THEN Some(val) ELSE None

to_digit(c, r) ==
    LET val == IF c >= ZERO_CH /\ c <= NINE_CH THEN c - ZERO_CH
               ELSE IF c >= LOWER_A /\ c <= LOWER_Z THEN c - LOWER_A + 10
               ELSE IF c >= UPPER_A /\ c <= UPPER_Z THEN c - UPPER_A + 10
               ELSE -1
    IN  IF val >= 0 /\ val < r THEN Some(val) ELSE None

is_not_digit_char(c, r) == ~to_digit(c, r).some

(***************************************************************************)
(* Results: (Ok(value), ptr) and (Err(code), ptr).                         *)
(***************************************************************************)
Ok(v, p) == [ok |-> TRUE, value |-> v, code |-> "None", pos |-> p]
Err(c, p) == [ok |-> FALSE, value |-> 0, code |-> c, pos |-> p]
NoResult == [ok |-> FALSE, value |-> 0, code |-> "Pending", pos |-> 0]

(***************************************************************************)
(* standalone!: the digit loop.  i is the 1-based index of the next byte   *)
(* of the whole slice; the pointer `c` of that byte is the index i - 1.    *)
(* neg selects checked_sub / Underflow instead of checked_add / Overflow.  *)
(***************************************************************************)
\* Mutant: at a byte that is not a digit the pointer returned is the one
\* past that byte.
RECURSIVE standalone_loop_past(_, _, _, _, _, _)
standalone_loop_past(T, r, s, i, value, neg) ==
    IF i > Len(s) THEN Ok(value, Len(s))
    ELSE LET digit == to_digit(s[i], r)
             code == IF neg THEN "Underflow" ELSE "Overflow"
         IN  IF ~digit.some THEN Ok(value, i)
             ELSE LET m == checked_mul(T, value, r)
                  IN  IF ~m.some THEN Err(code, i - 1)
                      ELSE LET a == IF neg THEN checked_sub(T, m.v, digit.v)
                                    ELSE checked_add(T, m.v, digit.v)
                           IN  IF ~a.some THEN Err(code, i - 1)
                               ELSE standalone_loop_past(T, r, s, i + 1, a.v, neg)

\* Mutant: at a byte that is not a digit the pointer returned is the end
\* of the slice.
RECURSIVE standalone_loop_end(_, _, _, _, _, _)
standalone_loop_end(T, r, s, i, value, neg) ==
    IF i > Len(s) THEN Ok(value, Len(s))
    ELSE LET digit == to_digit(s[i], r)
             code == IF neg THEN "Underflow" ELSE "Overflow"
         IN  IF ~digit.some THEN Ok(value, Len(s))
             ELSE LET m == checked_mul(T, value, r)
                  IN  IF ~m.some THEN Err(code, i - 1)
                      ELSE LET a == IF neg THEN checked_sub(T, m.v, digit.v)
                                    ELSE checked_add(T, m.v, digit.v)
                           IN  IF ~a.some THEN Err(code, i - 1)
                               ELSE standalone_loop_end(T, r, s, i + 1, a.v, neg)

RECURSIVE standalone_loop(_, _, _, _, _, _)
standalone_loop(T, r, s, i, value, neg) ==
    IF i > Len(s) THEN Ok(value, Len(s))
    ELSE LET digit == to_digit(s[i], r)
             code == IF neg THEN "Underflow" ELSE "Overflow"
         IN  IF ~digit.some THEN Ok(value, i - 1)
             ELSE LET m == checked_mul(T, value, r)
                  IN  IF ~m.some THEN Err(code, i - 1)
                      ELSE LET a == IF neg THEN checked_sub(T, m.v, digit.v)
                                    ELSE checked_add(T, m.v, digit.v)
                           IN  IF ~a.some THEN Err(code, i - 1)
                               ELSE standalone_loop(T, r, s, i + 1, a.v, neg)

\* Mutant: '-' is taken as a sign whatever the signedness.
sign_len_any(s, is_signed) ==
    IF s[1] = PLUS \/ s[1] = MINUS THEN 1 ELSE 0

\* The sign match of standalone: the number of bytes the sign takes.
sign_len(s, is_signed) ==
    IF s[1] = PLUS THEN 1
    ELSE IF s[1] = MINUS /\ is_signed THEN 1
    ELSE 0

\* Mutant: a negative number is accumulated as its magnitude and negated at
\* the end.
standalone_negating(T, r, s, is_signed) ==
    IF Len(s) = 0 THEN Err("Empty", 0)
    ELSE LET n == sign_len(s, is_signed)
             neg == n = 1 /\ s[1] = MINUS
             res == standalone_loop(T, r, s, n + 1, 0, FALSE)
         IN  IF Len(s) = n THEN Err("Empty", n)
             ELSE IF neg /\ res.ok THEN Ok(-res.value, res.pos)
             ELSE res

\* Mutant: a lone sign is reported at the start of the slice.
standalone_sign_at_start(T, r, s, is_signed) ==
    IF Len(s) = 0 THEN Err("Empty", 0)
    ELSE LET n == sign_len(s, is_signed)
             neg == n = 1 /\ s[1] = MINUS
         IN  IF Len(s) = n THEN Err("Empty", 0)
             ELSE standalone_loop(T, r, s, n + 1, 0, neg)

standalone(T, r, s, is_signed) ==
    IF Len(s) = 0 THEN Err("Empty", 0)
    ELSE LET n == sign_len(s, is_signed)
             neg == n = 1 /\ s[1] = MINUS
         IN  IF Len(s) = n THEN Err("Empty", n)
             ELSE standalone_loop(T, r, s, n + 1, 0, neg)

standalone_unsigned(T, r, s) == standalone(T, r, s, FALSE)

standalone_signed(T, r, s) == standalone(T, r, s, TRUE)

\* The callback the generated API is instantiated with for the type.
callback(T, r, s) ==
    IF T.signed THEN standalone_signed(T, r, s) ELSE standalone_unsigned(T, r, s)

(***************************************************************************)
(* The generated surfaces.  The leading surface returns the callback's     *)
(* result; the strict surface turns a success that stopped before the end  *)
(* of the slice into InvalidDigit at the byte where it stopped.            *)
(***************************************************************************)
leading_slice(T, r, s) == callback(T, r, s)

strict_slice(T, r, s) ==
    LET res == callback(T, r, s)
    IN  IF res.ok /\ res.pos # Len(s) THEN Err("InvalidDigit", res.pos) ELSE res

(***************************************************************************)
(* Inputs.                                                                 *)
(***************************************************************************)
\* The digit characters the formatter writes, lower and upper case.
LowerDigits == <<48, 49, 50, 51, 52, 53, 54, 55, 56, 57,
                 97, 98, 99, 100, 101, 102, 103, 104, 105, 106, 107, 108, 109,
                 110, 111, 112, 113, 114, 115, 116, 117, 118, 119, 120, 121, 122>>
UpperDigits == <<48, 49, 50, 51, 52, 53, 54, 55, 56, 57,
                 65, 66, 67, 68, 69, 70, 71, 72, 73, 74, 75, 76, 77,
                 78, 79, 80, 81, 82, 83, 84, 85, 86, 87, 88, 89, 90>>

\* The radix-r digit string of the magnitude m >= 0.
RECURSIVE Format(_, _, _)
Format(m, r, upper) ==
    LET ch == IF upper THEN UpperDigits[(m % r) + 1] ELSE LowerDigits[(m % r) + 1]
    IN  IF m < r THEN <<ch>> ELSE Append(Format(m \div r, r, upper), ch)

SeqsUpTo(S, n) == UNION {[1..k -> S] : k \in 0..n}

Alphabet == {PLUS, MINUS, 49, LOWER_A, SPACE}
TailBytes == {SPACE, ZERO_CH, MINUS}
Signs == {<<>>, <<PLUS>>, <<MINUS>>}

AtoiTypes == {U8, I8, U16, I16}

\* Magnitudes within Near of 0, of the signed maximum and of the unsigned
\* maximum of the type's width.
Boundary(T) ==
    LET smax == max_value([signed |-> TRUE, bits |-> T.bits])
        umax == max_value([signed |-> FALSE, bits |-> T.bits])
    IN  (0..Near) \cup ((smax - Near)..(smax + 1 + Near))
                 \cup ((umax - Near)..(umax + 1 + Near))

FormattedInputs(T, r) ==
    {sg \o Format(m, r, up) \o tl :
        sg \in Signs, m \in Boundary(T), up \in BOOLEAN,
        tl \in SeqsUpTo(TailBytes, MaxTail)}

FreeInputs == SeqsUpTo(Alphabet, MaxLen)

Init ==
    /\ op = "atoi"
    /\ ty \in AtoiTypes
    /\ radix \in Radices
    /\ bytes \in FormattedInputs(ty, radix) \cup (IF ty.bits = 8 THEN FreeInputs ELSE {})
    /\ pc = "ready"
    /\ surface = "none"
    /\ result = NoResult

\* Every value of an 8-bit type, written in every radix, in either letter
\* case, with the optional '+' and the '-' of a negative value.
RoundTripInputs(T, r) ==
    {sg \o Format(m, r, up) :
        sg \in Signs, m \in 0..(IF T.signed THEN 128 ELSE 255), up \in BOOLEAN}

RoundTripInit ==
    /\ op = "atoi"
    /\ ty \in {U8, I8}
    /\ radix \in Radices
    /\ bytes \in RoundTripInputs(ty, radix)
    /\ pc = "ready"
    /\ surface = "none"
    /\ result = NoResult

(***************************************************************************)
(* The calls of the integer API: atou*_radix_slice, atoi*_radix_slice and  *)
(* their leading_ variants.                                                *)
(***************************************************************************)
atou_slice ==
    /\ op = "atoi" /\ pc = "ready" /\ ~ty.signed
    /\ result' = strict_slice(ty, radix, bytes)
    /\ surface' = "strict"
    /\ pc' = "done"
    /\ UNCHANGED <<op, ty, radix, bytes>>

leading_atou_slice ==
    /\ op = "atoi" /\ pc = "ready" /\ ~ty.signed
    /\ result' = leading_slice(ty, radix, bytes)
    /\ surface' = "leading"
    /\ pc' = "done"
    /\ UNCHANGED <<op, ty, radix, bytes>>

atoi_slice ==
    /\ op = "atoi" /\ pc = "ready" /\ ty.signed
    /\ result' = strict_slice(ty, radix, bytes)
    /\ surface' = "strict"
    /\ pc' = "done"
    /\ UNCHANGED <<op, ty, radix, bytes>>

leading_atoi_slice ==
    /\ op = "atoi" /\ pc = "ready" /\ ty.signed
    /\ result' = leading_slice(ty, radix, bytes)
    /\ surface' = "leading"
    /\ pc' = "done"
    /\ UNCHANGED <<op, ty, radix, bytes>>

Next == atou_slice \/ leading_atou_slice \/ atoi_slice \/ leading_atoi_slice

Spec == Init /\ [][Next]_vars

SpecRoundTrip == RoundTripInit /\ [][Next]_vars

(***************************************************************************)
(* The digit decoder called on one byte: fn to_digit and                   *)
(* fn is_not_digit_char.  The byte is bytes[1]; Err(c) carries the         *)
(* reference to the byte itself, index 0.                                  *)
(***************************************************************************)
DigitInit ==
    /\ op = "digit"
    /\ ty = U8
    /\ radix \in Radices
    /\ bytes \in {<<b>> : b \in Byte}
    /\ pc = "ready"
    /\ surface = "none"
    /\ result = NoResult

ToDigitCall ==
    /\ op = "digit" /\ pc = "ready"
    /\ result' = (IF to_digit(bytes[1], radix).some
                  THEN Ok(to_digit(bytes[1], radix).v, 0)
                  ELSE Err("NotADigit", 0))
    /\ surface' = "to_digit"
    /\ pc' = "done"
    /\ UNCHANGED <<op, ty, radix, bytes>>

IsNotDigitCharCall ==
    /\ op = "digit" /\ pc = "ready"
    /\ result' = Ok(is_not_digit_char(bytes[1], radix), 0)
    /\ surface' = "is_not_digit_char"
    /\ pc' = "done"
    /\ UNCHANGED <<op, ty, radix, bytes>>

DigitNext == ToDigitCall \/ IsNotDigitCharCall

SpecDigit == DigitInit /\ [][DigitNext]_vars

(***************************************************************************)
(* add_digit!: checked multiply by the radix, then checked add or sub.     *)
(***************************************************************************)
\* Mutant: the exponent digits are accumulated in radix 10.
add_digit_decimal(value, r, neg, digit) ==
    LET m == checked_mul(I32, value, 10)
    IN  IF ~m.some THEN None
        ELSE IF neg THEN checked_sub(I32, m.v, digit) ELSE checked_add(I32, m.v, digit)

add_digit(value, r, neg, digit) ==
    LET m == checked_mul(I32, value, r)
    IN  IF ~m.some THEN None
        ELSE IF neg THEN checked_sub(I32, m.v, digit) ELSE checked_add(I32, m.v, digit)

\* iter.find(|&c| is_not_digit_char(*c, radix)) from the 1-based index i on:
\* the index of the first byte that is not a digit, Len(s) + 1 when none is.
RECURSIVE find_not_digit(_, _, _)
find_not_digit(r, s, i) ==
    IF i > Len(s) THEN Len(s) + 1
    ELSE IF is_not_digit_char(s[i], r) THEN i
    ELSE find_not_digit(r, s, i + 1)

(***************************************************************************)
(* standalone_exponent!: the digit loop of the exponent.  On overflow the  *)
(* rest of the iterator is searched for a non-digit; the value becomes     *)
(* `default`, and the loop ends there or, with the iterator exhausted, at  *)
(* the end of the slice.                                                   *)
(***************************************************************************)
RECURSIVE exponent_loop(_, _, _, _, _)
exponent_loop(r, s, i, value, neg) ==
    IF i > Len(s) THEN Ok(value, Len(s))
    ELSE LET digit == to_digit(s[i], r)
             default == IF neg THEN I32_MIN ELSE I32_MAX
         IN  IF ~digit.some THEN Ok(value, i - 1)
             ELSE LET a == add_digit(value, r, neg, digit.v)
                  IN  IF a.some THEN exponent_loop(r, s, i + 1, a.v, neg)
                      ELSE LET k == find_not_digit(r, s, i + 1)
                           IN  IF k <= Len(s) THEN Ok(default, k - 1)
                               ELSE Ok(default, Len(s))

\* Mutant: a lone sign is reported at the start of the slice.
standalone_exponent_sign_at_start(r, s) ==
    IF Len(s) = 0 THEN Err("EmptyExponent", 0)
    ELSE LET n == IF s[1] = PLUS \/ s[1] = MINUS THEN 1 ELSE 0
             neg == s[1] = MINUS
         IN  IF Len(s) = n THEN Err("EmptyExponent", 0)
             ELSE exponent_loop(r, s, n + 1, 0, neg)

standalone_exponent(r, s) ==
    IF Len(s) = 0 THEN Err("EmptyExponent", 0)
    ELSE LET n == IF s[1] = PLUS \/ s[1] = MINUS THEN 1 ELSE 0
             neg == s[1] = MINUS
         IN  IF Len(s) = n THEN Err("EmptyExponent", n)
             ELSE exponent_loop(r, s, n + 1, 0, neg)

\* Exponent digit strings around the 32-bit limit: i32::MAX \div r followed
\* by a last digit around i32::MAX % r, and two strings a multiplication
\* by the radix already takes out of range.
BigBodies(r, up) ==
    LET q == I32_MAX \div r
        rem == I32_MAX % r
        ch(d) == IF up THEN UpperDigits[d + 1] ELSE LowerDigits[d + 1]
    IN  {Append(Format(q, r, up), ch(d)) :
            d \in {x \in (rem - Near)..(rem + 1 + Near) : x >= 0 /\ x < r}}
        \cup {Append(Format(q + 1, r, up), ZERO_CH), Append(Format(I32_MAX, r, up), ZERO_CH)}

ExponentInputs(r) ==
    FreeInputs \cup
    {sg \o body \o tl :
        sg \in Signs, body \in BigBodies(r, TRUE) \cup BigBodies(r, FALSE),
        tl \in SeqsUpTo(TailBytes, MaxTail)}

ExponentInit ==
    /\ op = "exponent"
    /\ ty = I32
    /\ radix \in Radices
    /\ bytes \in ExponentInputs(radix)
    /\ pc = "ready"
    /\ surface = "none"
    /\ result = NoResult

ExponentCall ==
    /\ op = "exponent" /\ pc = "ready"
    /\ result' = standalone_exponent(radix, bytes)
    /\ surface' = "exponent"
    /\ pc' = "done"
    /\ UNCHANGED <<op, ty, radix, bytes>>

ExponentNext == ExponentCall

SpecExponent == ExponentInit /\ [][ExponentNext]_vars

(***************************************************************************)
(* parse_exponent: the exponent section of a float, from its marker on.    *)
(* The marker is 'e' or 'E' below radix 15 and '^' from radix 15 on, where *)
(* 'e' is a digit; the digits after it go through standalone_exponent.     *)
(* Without a marker the exponent is 0 and nothing is consumed.             *)
(***************************************************************************)
LOWER_E == 101
UPPER_E == 69
CARET == 94
CARET_RADIX == 15

exponent_notation_char(r) == IF r >= CARET_RADIX THEN CARET ELSE LOWER_E

to_ascii_lowercase(c) == IF c >= UPPER_A /\ c <= UPPER_Z THEN c + (LOWER_A - UPPER_A) ELSE c

parse_exponent(r, s) ==
    IF Len(s) >= 1 /\ to_ascii_lowercase(s[1]) = exponent_notation_char(r)
    THEN LET res == standalone_exponent(r, Tail(s))
         IN  [res EXCEPT !.pos = res.pos + 1]
    ELSE Ok(0, 0)

\* The exponents of parse_exponent_test, "20" with a sign and a tail, next
\* to the exponent inputs above, each with and without a marker.
MarkerInputs(r) ==
    LET sections == ExponentInputs(r) \cup
                    {sg \o <<50, ZERO_CH>> \o tl :
                        sg \in Signs, tl \in SeqsUpTo(TailBytes, MaxTail)}
    IN  sections \cup {<<m>> \o x : m \in {LOWER_E, UPPER_E, CARET}, x \in sections}

ParseExponentInit ==
    /\ op = "parse_exponent"
    /\ ty = I32
    /\ radix \in Radices
    /\ bytes \in MarkerInputs(radix)
    /\ pc = "ready"
    /\ surface = "none"
    /\ result = NoResult

ParseExponentCall ==
    /\ op = "parse_exponent" /\ pc = "ready"
    /\ result' = parse_exponent(radix, bytes)
    /\ surface' = "parse_exponent"
    /\ pc' = "done"
    /\ UNCHANGED <<op, ty, radix, bytes>>

ParseExponentNext == ParseExponentCall

SpecParseExponent == ParseExponentInit /\ [][ParseExponentNext]_vars

(***************************************************************************)
(* Unsigned integers wider than 32 bits: the u64 and u128 of a mantissa.   *)
(* A value is the sequence of its limbs in base 1000, least significant    *)
(* first, without high zero limbs; zero is the empty sequence.             *)
(***************************************************************************)
LIMB == 10 * 100

RECURSIVE BigFromInt(_)
BigFromInt(n) == IF n = 0 THEN <<>> ELSE <<n % LIMB>> \o BigFromInt(n \div LIMB)

\* x * k + c for small k > 0 and c >= 0.
RECURSIVE BigMulAdd(_, _, _)
BigMulAdd(x, k, c) ==
    IF x = <<>> THEN BigFromInt(c)
    ELSE LET t == x[1] * k + c
         IN  <<t % LIMB>> \o BigMulAdd(Tail(x), k, t \div LIMB)

RECURSIVE BigCmpFrom(_, _, _)
BigCmpFrom(x, y, i) ==
    IF i = 0 THEN 0
    ELSE IF x[i] > y[i] THEN 1
    ELSE IF x[i] < y[i] THEN -1
    ELSE BigCmpFrom(x, y, i - 1)

\* -1, 0 or 1 as x < y, x = y or x > y.
BigCmp(x, y) ==
    IF Len(x) > Len(y) THEN 1
    ELSE IF Len(x) < Len(y) THEN -1
    ELSE BigCmpFrom(x, y, Len(x))

\* Quotient and remainder of x by a small k > 0.
RECURSIVE BigDivMod(_, _)
BigDivMod(x, k) ==
    IF x = <<>> THEN [q |-> <<>>, r |-> 0]
    ELSE LET hi == BigDivMod(Tail(x), k)
             t == hi.r * LIMB + x[1]
         IN  [q |-> IF hi.q = <<>> /\ t \div k = 0 THEN <<>> ELSE <<t \div k>> \o hi.q,
              r |-> t % k]

RECURSIVE BigAddCarry(_, _, _)
BigAddCarry(x, y, c) ==
    IF x = <<>> THEN BigMulAdd(y, 1, c)
    ELSE IF y = <<>> THEN BigMulAdd(x, 1, c)
    ELSE LET t == x[1] + y[1] + c
         IN  <<t % LIMB>> \o BigAddCarry(Tail(x), Tail(y), t \div LIMB)

BigAdd(x, y) == BigAddCarry(x, y, 0)

\* x - 1 for x > 0.
RECURSIVE BigPred(_)
BigPred(x) ==
    IF x[1] > 0 THEN (IF Len(x) = 1 /\ x[1] = 1 THEN <<>> ELSE [x EXCEPT ![1] = @ - 1])
    ELSE <<LIMB - 1>> \o BigPred(Tail(x))

RECURSIVE BigPow(_, _)
BigPow(b, n) == IF n = 0 THEN <<1>> ELSE BigMulAdd(BigPow(b, n - 1), b, 0)

(***************************************************************************)
(* The mantissa types M: u64 and u128, with their checked arithmetic.      *)
(***************************************************************************)
U64 == [signed |-> FALSE, bits |-> 64]
U128 == [signed |-> FALSE, bits |-> 128]
MantissaTypes == {U64, U128}

\* 2^bits - 1, with 2^bits as a power of 2^16.
MantissaMax == [b \in {64, 128} |-> BigPred(BigPow(2^16, b \div 16))]

\* Mutant: a product equal to the maximum of M counts as an overflow.
mantissa_checked_mul_strict(M, a, k) ==
    LET p == BigMulAdd(a, k, 0)
    IN  IF BigCmp(p, MantissaMax[M.bits]) >= 0 THEN None ELSE Some(p)

mantissa_checked_mul(M, a, k) ==
    LET p == BigMulAdd(a, k, 0)
    IN  IF BigCmp(p, MantissaMax[M.bits]) > 0 THEN None ELSE Some(p)

\* Mutant: a sum equal to the maximum of M counts as an overflow.
mantissa_checked_add_strict(M, a, d) ==
    LET p == BigMulAdd(a, 1, d)
    IN  IF BigCmp(p, MantissaMax[M.bits]) >= 0 THEN None ELSE Some(p)

mantissa_checked_add(M, a, d) ==
    LET p == BigMulAdd(a, 1, d)
    IN  IF BigCmp(p, MantissaMax[M.bits]) > 0 THEN None ELSE Some(p)

\* fn add_digit: value.checked_mul(radix)?.checked_add(digit).
mantissa_add_digit(M, value, digit, r) ==
    LET m == mantissa_checked_mul(M, value, r)
    IN  IF ~m.some THEN None ELSE mantissa_checked_add(M, m.v, digit)

(***************************************************************************)
(* standalone_mantissa: the digits of the integer and of the fraction      *)
(* slice go into one value; at the first digit that overflows it returns   *)
(* the value so far and the number of digits left, that digit included.    *)
(* Every byte of both slices is a digit of the radix.                      *)
(***************************************************************************)
\* One `while let` loop: the value after the loop and the 1-based index of
\* the digit add_digit refused, Len(s) + 1 when it took them all.
RECURSIVE mantissa_loop(_, _, _, _, _)
mantissa_loop(M, r, s, i, value) ==
    IF i > Len(s) THEN [value |-> value, stop |-> Len(s) + 1]
    ELSE LET a == mantissa_add_digit(M, value, to_digit(s[i], r).v, r)
         IN  IF a.some THEN mantissa_loop(M, r, s, i + 1, a.v)
             ELSE [value |-> value, stop |-> i]

standalone_mantissa(M, r, integer, fraction) ==
    LET a == mantissa_loop(M, r, integer, 1, <<>>)
    IN  IF a.stop <= Len(integer)
        THEN [value |-> a.value,
              truncated |-> 1 + (Len(integer) - a.stop) + Len(fraction)]
        ELSE LET b == mantissa_loop(M, r, fraction, 1, a.value)
             IN  IF b.stop <= Len(fraction)
                 THEN [value |-> b.value, truncated |-> 1 + (Len(fraction) - b.stop)]
                 ELSE [value |-> b.value, truncated |-> 0]

(***************************************************************************)
(* parse_mantissa and the helpers it calls.  Positions count the bytes     *)
(* before the pointer: p = distance(first, pointer).                       *)
(***************************************************************************)
DOT == 46

\* ltrim_char_range(first, last, c): the pointer after the leading c bytes.
RECURSIVE ltrim_char_range(_, _, _)
ltrim_char_range(s, p, c) ==
    IF p < Len(s) /\ s[p + 1] = c THEN ltrim_char_range(s, p + 1, c) ELSE p

try_i32_or_max(n) == IF n > I32_MAX THEN I32_MAX ELSE n

\* atoi::checked(&mut mantissa, base, first, last): reads digits into the
\* mantissa with checked arithmetic; at the first digit that overflows it
\* leaves the mantissa, skips to the end of the digits and reports how many
\* digits it truncated, that digit included.
RECURSIVE checked(_, _, _, _, _)
checked(M, mantissa, r, s, p) ==
    IF p >= Len(s) \/ is_not_digit_char(s[p + 1], r)
    THEN [mantissa |-> mantissa, pos |-> p, truncated |-> 0]
    ELSE LET a == mantissa_add_digit(M, mantissa, to_digit(s[p + 1], r).v, r)
         IN  IF a.some THEN checked(M, a.v, r, s, p + 1)
             ELSE LET e == find_not_digit(r, s, p + 1) - 1
                  IN  [mantissa |-> mantissa, pos |-> e, truncated |-> e - p]

\* The `while p < last && char_to_digit(*p) < base` loop of parse_mantissa.
RECURSIVE skip_digits(_, _, _)
skip_digits(r, s, p) ==
    IF p < Len(s) /\ to_digit(s[p + 1], r).some THEN skip_digits(r, s, p + 1) ELSE p

\* Mutant: the dot shift counts the truncated fractional digits too.
parse_mantissa_untruncated_shift(M, r, s) ==
    LET first == ltrim_char_range(s, 0, ZERO_CH)
        int == checked(M, <<>>, r, s, first)
        f == int.pos
        has_fraction == Len(s) - f >= 1 /\ s[f + 1] = DOT
    IN  IF has_fraction /\ int.truncated = 0
        THEN LET f1 == f + 1
                 tup == IF int.mantissa = <<>>
                        THEN checked(M, int.mantissa, r, s, ltrim_char_range(s, f1, ZERO_CH))
                        ELSE checked(M, int.mantissa, r, s, f1)
                 dot_shift == try_i32_or_max(tup.pos - f1)
             IN  [mantissa |-> tup.mantissa, dot_shift |-> dot_shift,
                  pos |-> tup.pos, truncated |-> tup.truncated # 0]
        ELSE IF has_fraction
        THEN [mantissa |-> int.mantissa, dot_shift |-> -try_i32_or_max(int.truncated),
              pos |-> skip_digits(r, s, f + 1), truncated |-> TRUE]
        ELSE [mantissa |-> int.mantissa, dot_shift |-> -try_i32_or_max(int.truncated),
              pos |-> f, truncated |-> int.truncated # 0]

\* Mutant: the dot shift is measured from the first fractional byte that is
\* not a zero.
parse_mantissa_trimmed_shift(M, r, s) ==
    LET first == ltrim_char_range(s, 0, ZERO_CH)
        int == checked(M, <<>>, r, s, first)
        f == int.pos
        has_fraction == Len(s) - f >= 1 /\ s[f + 1] = DOT
    IN  IF has_fraction /\ int.truncated = 0
        THEN LET f0 == f + 1
                 f1 == IF int.mantissa = <<>> THEN ltrim_char_range(s, f0, ZERO_CH) ELSE f0
                 tup == IF int.mantissa = <<>>
                        THEN checked(M, int.mantissa, r, s, ltrim_char_range(s, f1, ZERO_CH))
                        ELSE checked(M, int.mantissa, r, s, f1)
                 dot_shift == try_i32_or_max(tup.pos - f1) - try_i32_or_max(tup.truncated)
             IN  [mantissa |-> tup.mantissa, dot_shift |-> dot_shift,
                  pos |-> tup.pos, truncated |-> tup.truncated # 0]
        ELSE IF has_fraction
        THEN [mantissa |-> int.mantissa, dot_shift |-> -try_i32_or_max(int.truncated),
              pos |-> skip_digits(r, s, f + 1), truncated |-> TRUE]
        ELSE [mantissa |-> int.mantissa, dot_shift |-> -try_i32_or_max(int.truncated),
              pos |-> f, truncated |-> int.truncated # 0]

\* Mutant: the fraction after an integer part of zeros is skipped as if the
\* integer part had been truncated.
parse_mantissa_skips_after_zero(M, r, s) ==
    LET first == ltrim_char_range(s, 0, ZERO_CH)
        int == checked(M, <<>>, r, s, first)
        f == int.pos
        has_fraction == Len(s) - f >= 1 /\ s[f + 1] = DOT
    IN  IF has_fraction /\ int.truncated = 0 /\ int.mantissa # <<>>
        THEN LET f1 == f + 1
                 tup == checked(M, int.mantissa, r, s, f1)
                 dot_shift == try_i32_or_max(tup.pos - f1) - try_i32_or_max(tup.truncated)
             IN  [mantissa |-> tup.mantissa, dot_shift |-> dot_shift,
                  pos |-> tup.pos, truncated |-> tup.truncated # 0]
        ELSE IF has_fraction
        THEN [mantissa |-> int.mantissa, dot_shift |-> -try_i32_or_max(int.truncated),
              pos |-> skip_digits(r, s, f + 1), truncated |-> TRUE]
        ELSE [mantissa |-> int.mantissa, dot_shift |-> -try_i32_or_max(int.truncated),
              pos |-> f, truncated |-> int.truncated # 0]

\* Mutant: after a truncated integer part the parse ends at the dot.
parse_mantissa_stops_at_dot(M, r, s) ==
    LET first == ltrim_char_range(s, 0, ZERO_CH)
        int == checked(M, <<>>, r, s, first)
        f == int.pos
        has_fraction == Len(s) - f >= 1 /\ s[f + 1] = DOT
    IN  IF has_fraction /\ int.truncated = 0
        THEN LET f1 == f + 1
                 tup == IF int.mantissa = <<>>
                        THEN checked(M, int.mantissa, r, s, ltrim_char_range(s, f1, ZERO_CH))
                        ELSE checked(M, int.mantissa, r, s, f1)
                 dot_shift == try_i32_or_max(tup.pos - f1) - try_i32_or_max(tup.truncated)
             IN  [mantissa |-> tup.mantissa, dot_shift |-> dot_shift,
                  pos |-> tup.pos, truncated |-> tup.truncated # 0]
        ELSE [mantissa |-> int.mantissa, dot_shift |-> -try_i32_or_max(int.truncated),
              pos |-> f, truncated |-> int.truncated # 0]

parse_mantissa(M, r, s) ==
    LET first == ltrim_char_range(s, 0, ZERO_CH)
        int == checked(M, <<>>, r, s, first)
        f == int.pos
        has_fraction == Len(s) - f >= 1 /\ s[f + 1] = DOT
    IN  IF has_fraction /\ int.truncated = 0
        THEN LET f1 == f + 1
                 tup == IF int.mantissa = <<>>
                        THEN checked(M, int.mantissa, r, s, ltrim_char_range(s, f1, ZERO_CH))
                        ELSE checked(M, int.mantissa, r, s, f1)
                 dot_shift == try_i32_or_max(tup.pos - f1) - try_i32_or_max(tup.truncated)
             IN  [mantissa |-> tup.mantissa, dot_shift |-> dot_shift,
                  pos |-> tup.pos, truncated |-> tup.truncated # 0]
        ELSE IF has_fraction
        THEN [mantissa |-> int.mantissa, dot_shift |-> -try_i32_or_max(int.truncated),
              pos |-> skip_digits(r, s, f + 1), truncated |-> TRUE]
        ELSE [mantissa |-> int.mantissa, dot_shift |-> -try_i32_or_max(int.truncated),
              pos |-> f, truncated |-> int.truncated # 0]

(***************************************************************************)
(* Mantissa inputs: short strings of digits and dots, and digit strings    *)
(* around the capacity of M (its maximum, one more, a one followed by      *)
(* zeros, the largest digit repeated), each with extra digits, a dot at    *)
(* the ends or inside, leading zeros and a byte that ends the number.      *)
(***************************************************************************)
MaxExtra == 1
MaxZeros == 2

\* The c-digit radix-r string of n < r^c, with its leading zeros.
RECURSIVE PadFormat(_, _, _)
PadFormat(n, r, c) ==
    IF c = 0 THEN <<>> ELSE Append(PadFormat(n \div r, r, c - 1), LowerDigits[(n % r) + 1])

\* The number of digits written at a time: the largest c with r^c <= 10^6.
ChunkDigits == [r \in Radices |-> CHOOSE c \in 1..20 : r^c <= 10^6 /\ r^(c + 1) > 10^6]

\* The radix-r digit string of x > 0.
RECURSIVE BigFormat(_, _)
BigFormat(x, r) ==
    LET c == ChunkDigits[r]
        dm == BigDivMod(x, r^c)
    IN  IF dm.q = <<>> THEN Format(dm.r, r, FALSE)
        ELSE BigFormat(dm.q, r) \o PadFormat(dm.r, r, c)

MaxText == [b \in {64, 128} |-> [r \in Radices |-> BigFormat(MantissaMax[b], r)]]
OverText == [b \in {64, 128} |-> [r \in Radices |-> BigFormat(BigMulAdd(MantissaMax[b], 1, 1), r)]]

Rep(c, n) == [k \in 1..n |-> c]

TopDigit(r) == LowerDigits[r]

CapacityBodies(M, r) ==
    LET len == Len(MaxText[M.bits][r])
    IN  {MaxText[M.bits][r], OverText[M.bits][r],
         <<49>> \o Rep(ZERO_CH, len - 1), <<49>> \o Rep(ZERO_CH, len),
         Rep(TopDigit(r), len)}

\* d with a dot after its first k digits.
WithDot(d, k) == SubSeq(d, 1, k) \o <<DOT>> \o SubSeq(d, k + 1, Len(d))

LongDigits(M, r) ==
    {body \o ext : body \in CapacityBodies(M, r),
                   ext \in SeqsUpTo({ZERO_CH, TopDigit(r)}, MaxExtra)}

\* The radices whose capacity strings are tried: powers of two, where the
\* digits fill the word exactly, and radices where they do not.
CapacityRadices == [b \in {64, 128} |-> IF b = 64 THEN {2, 3, 10, 16, 36} ELSE {10, 16, 36}]

MantissaInputs(M, r) ==
    SeqsUpTo({ZERO_CH, 49, DOT, SPACE}, MaxLen)
    \cup IF r \notin CapacityRadices[M.bits] THEN {} ELSE
         {zs \o x \o tl :
            zs \in {<<>>, <<ZERO_CH>>},
            x \in LongDigits(M, r) \cup
                  UNION {{WithDot(d, k) : k \in {0, 1, Len(MaxText[M.bits][r]) - 1, Len(d) - 1, Len(d)}} :
                             d \in LongDigits(M, r)},
            tl \in {<<>>, <<SPACE>>}}

MantissaInit ==
    /\ op = "mantissa"
    /\ ty \in MantissaTypes
    /\ radix \in Radices
    /\ bytes \in MantissaInputs(ty, radix)
    /\ pc = "ready"
    /\ surface = "none"
    /\ result = NoResult

\* check_parse_mantissa: parse_mantissa::<M>(base, first, last).
ParseMantissaCall ==
    /\ op = "mantissa" /\ pc = "ready"
    /\ result' = parse_mantissa(ty, radix, bytes)
    /\ surface' = "parse_mantissa"
    /\ pc' = "done"
    /\ UNCHANGED <<op, ty, radix, bytes>>

\* The input as its integer and fraction digit slices, when it is digits
\* with at most one dot.
DotIndex(s) == IF \E i \in 1..Len(s) : s[i] = DOT
               THEN CHOOSE i \in 1..Len(s) : s[i] = DOT /\ \A j \in 1..(i - 1) : s[j] # DOT
               ELSE Len(s) + 1
IntegerSlice(s) == SubSeq(s, 1, DotIndex(s) - 1)
FractionSlice(s) == SubSeq(s, DotIndex(s) + 1, Len(s))
AllDigits(s, r) == \A i \in 1..Len(s) : to_digit(s[i], r).some

\* standalone_mantissa::<M>(radix, integer, fraction) on valid digits.
StandaloneMantissaCall ==
    /\ op = "mantissa" /\ pc = "ready"
    /\ AllDigits(IntegerSlice(bytes), radix) /\ AllDigits(FractionSlice(bytes), radix)
    /\ LET res == standalone_mantissa(ty, radix, IntegerSlice(bytes), FractionSlice(bytes))
       IN  result' = [mantissa |-> res.value, truncated |-> res.truncated]
    /\ surface' = "standalone_mantissa"
    /\ pc' = "done"
    /\ UNCHANGED <<op, ty, radix, bytes>>

\* parse_mantissa on the digits D of the input and on "0." followed by k
\* zeros and D.
ParseZeroPaddedCall ==
    /\ op = "mantissa" /\ pc = "ready"
    /\ AllDigits(bytes, radix)
    /\ \E k \in 0..MaxZeros :
          result' = [k |-> k,
                     plain |-> parse_mantissa(ty, radix, bytes),
                     padded |-> parse_mantissa(ty, radix,
                                    <<ZERO_CH, DOT>> \o Rep(ZERO_CH, k) \o bytes)]
    /\ surface' = "zero_padded"
    /\ pc' = "done"
    /\ UNCHANGED <<op, ty, radix, bytes>>

\* parse_float::<u64> and then parse_float::<u128> of the lossy driver, as
\* far as their parse_mantissa: the same bytes in both widths.
ParseBothWidthsCall ==
    /\ op = "mantissa" /\ pc = "ready"
    /\ result' = [narrow |-> parse_mantissa(U64, radix, bytes),
                  wide |-> parse_mantissa(U128, radix, bytes)]
    /\ surface' = "both_widths"
    /\ pc' = "done"
    /\ UNCHANGED <<op, ty, radix, bytes>>

MantissaNext ==
    \/ ParseMantissaCall
    \/ StandaloneMantissaCall
    \/ ParseZeroPaddedCall
    \/ ParseBothWidthsCall

SpecMantissa == MantissaInit /\ [][MantissaNext]_vars

(***************************************************************************)
(* i32 arithmetic of the exponent.  `exponent += k` and `a - b` overflow   *)
(* outside the 32-bit range: a build with overflow checks panics, a build  *)
(* without them wraps.                                                     *)
(***************************************************************************)
i32_add_overflows(e, k) ==
    \/ k > 0 /\ e > I32_MAX - k
    \/ k < 0 /\ e < I32_MIN - k

i32_wrapping_add(e, k) ==
    IF k > 0 /\ e > I32_MAX - k THEN I32_MIN + ((k - 1) - (I32_MAX - e))
    ELSE IF k < 0 /\ e < I32_MIN - k THEN I32_MAX - (((-k) - 1) - (e - I32_MIN))
    ELSE e + k

Builds == {"debug", "release"}

(***************************************************************************)
(* normalize_exponent(exponent, dot_shift): the exponent of the integer    *)
(* mantissa, exponent - dot_shift.                                         *)
(***************************************************************************)
normalize_exponent(exponent, dot_shift) ==
    [exponent |-> i32_wrapping_add(exponent, -dot_shift),
     overflow |-> i32_add_overflows(exponent, -dot_shift)]

(***************************************************************************)
(* normalize_mantissa: moves factors of the base from the mantissa to the  *)
(* exponent, base^4 and base^2 at a time, then base once.                  *)
(***************************************************************************)
\* while mantissa >= bk && (mantissa % bk).is_zero() { mantissa /= bk; exponent += k; }
RECURSIVE normalize_loop(_, _, _, _, _)
normalize_loop(mantissa, bk, k, exponent, overflow) ==
    LET dm == BigDivMod(mantissa, bk)
    IN  IF BigCmp(mantissa, BigFromInt(bk)) >= 0 /\ dm.r = 0
        THEN normalize_loop(dm.q, bk, k, i32_wrapping_add(exponent, k),
                            overflow \/ i32_add_overflows(exponent, k))
        ELSE [mantissa |-> mantissa, exponent |-> exponent, overflow |-> overflow]

normalize_mantissa(M, mantissa, base, exponent) ==
    LET base2 == base * base
        base4 == base2 * base2
        by4 == normalize_loop(mantissa, base4, 4, exponent, FALSE)
        by2 == normalize_loop(by4.mantissa, base2, 2, by4.exponent, by4.overflow)
        dm == BigDivMod(by2.mantissa, base)
    IN  IF dm.r = 0
        THEN [mantissa |-> dm.q, exponent |-> i32_wrapping_add(by2.exponent, 1),
              overflow |-> by2.overflow \/ i32_add_overflows(by2.exponent, 1)]
        ELSE by2

(***************************************************************************)
(* parse_float, a step per call it makes: parse_mantissa, parse_exponent   *)
(* from where the mantissa ended, normalize_exponent, normalize_mantissa.  *)
(* The result record fills up as the steps run.                            *)
(***************************************************************************)
MaxFloatZeros == 8

FloatStart == [mantissa |-> <<>>, dot_shift |-> 0, pos |-> 0, truncated |-> FALSE,
               parsed |-> 0, effective |-> 0, exponent |-> 0]

\* Mantissas of a float: one or two digits followed by zeros, with a dot in
\* front, after the first digit or nowhere.
FloatBodies(r) ==
    {d \o Rep(ZERO_CH, k) :
        d \in {<<49>>, <<TopDigit(r)>>, <<49, TopDigit(r)>>},
        k \in 0..MaxFloatZeros}

FloatMantissas(r) ==
    FloatBodies(r) \cup
    UNION {{WithDot(d, k) : k \in {0, 1}} : d \in FloatBodies(r)}

\* Mantissas with truncated integer digits (u64, radix 10).
LongMantissas ==
    {<<49>> \o Rep(ZERO_CH, 20), <<49>> \o Rep(ZERO_CH, 21),
     <<49>> \o Rep(ZERO_CH, 20) \o <<DOT, 49>>}

ExponentMarker(r) == IF r >= CARET_RADIX THEN CARET ELSE LOWER_E

\* Exponent sections: none, small ones, an empty one.
SmallSections(r) ==
    {<<>>, <<SPACE>>, <<ExponentMarker(r)>>}
    \cup {<<ExponentMarker(r)>> \o sg \o ds :
            sg \in Signs, ds \in {<<49>>, <<49, ZERO_CH>>}}
    \cup {<<IF r >= CARET_RADIX THEN CARET ELSE UPPER_E, 49, ZERO_CH, SPACE>>}

\* Exponent sections within Near of i32::MAX, beyond it, and a digit short
\* of it.
LargeSections(r) ==
    {<<ExponentMarker(r)>> \o Format(I32_MAX - k, r, FALSE) : k \in 0..(3 + Near)}
    \cup {<<ExponentMarker(r), MINUS>> \o Format(I32_MAX, r, FALSE)}
    \cup {<<ExponentMarker(r)>> \o sg \o Format(I32_MAX \div r, r, FALSE) :
            sg \in {<<>>, <<MINUS>>}}
    \cup {<<ExponentMarker(r)>> \o sg \o Append(Format(I32_MAX, r, FALSE), ZERO_CH) :
            sg \in {<<>>, <<MINUS>>}}

\* Mantissas of zeros: short ones, and for radix 36 more zeros than M holds
\* digits, alone and before a one.
ZeroMantissas(M, r) ==
    {<<ZERO_CH>>, <<ZERO_CH, DOT>>, <<DOT, ZERO_CH>>, <<ZERO_CH, DOT, ZERO_CH>>,
     <<ZERO_CH, ZERO_CH, DOT, ZERO_CH, ZERO_CH>>}
    \cup IF r # 36 THEN {} ELSE
         LET zeros == Rep(ZERO_CH, Len(MaxText[M.bits][r]) + 1)
         IN  {zeros, zeros \o <<DOT>> \o zeros, zeros \o <<DOT>> \o zeros \o <<49>>}

FloatInputs(M, r) ==
    {x \o y : x \in FloatMantissas(r), y \in SmallSections(r) \cup LargeSections(r)}
    \cup {x \o y : x \in ZeroMantissas(M, r), y \in SmallSections(r)}
    \cup IF M = U64 /\ r = 10
         THEN {x \o y : x \in LongMantissas, y \in SmallSections(r)}
         ELSE {}

\* Radices with either marker, powers of two and others.
FloatRadices == {2, 3, 10, 14, 15, 16, 36}

FloatInit ==
    /\ op = "float"
    /\ ty \in MantissaTypes
    /\ radix \in FloatRadices
    /\ bytes \in FloatInputs(ty, radix)
    /\ pc = "ready"
    /\ surface = "parse_float"
    /\ result = FloatStart

\* let (mantissa, dot_shift, p, truncated) = parse_mantissa::<M>(base, first, last);
ParseFloatMantissa ==
    /\ op = "float" /\ pc = "ready"
    /\ LET m == parse_mantissa(ty, radix, bytes)
       IN  result' = [result EXCEPT !.mantissa = m.mantissa, !.dot_shift = m.dot_shift,
                                    !.pos = m.pos, !.truncated = m.truncated]
    /\ pc' = "mantissa"
    /\ UNCHANGED <<op, ty, radix, bytes, surface>>

\* Mutant: the exponent is parsed from `first`, not from where the mantissa
\* ended.
ParseFloatExponent_from_first ==
    /\ op = "float" /\ pc = "mantissa"
    /\ LET e == parse_exponent(radix, bytes)
       IN  result' = [result EXCEPT !.parsed = e.value, !.pos = e.pos]
    /\ pc' = "exponent"
    /\ UNCHANGED <<op, ty, radix, bytes, surface>>

\* let (exponent, p) = parse_exponent(base, p, last);
ParseFloatExponent ==
    /\ op = "float" /\ pc = "mantissa"
    /\ LET e == parse_exponent(radix, SubSeq(bytes, result.pos + 1, Len(bytes)))
       IN  result' = [result EXCEPT !.parsed = e.value, !.pos = result.pos + e.pos]
    /\ pc' = "exponent"
    /\ UNCHANGED <<op, ty, radix, bytes, surface>>

\* let exponent = normalize_exponent(exponent, dot_shift);
ParseFloatNormalizeExponent ==
    /\ op = "float" /\ pc = "exponent"
    /\ LET e == normalize_exponent(result.parsed, result.dot_shift)
       IN  \E build \in Builds :
              IF e.overflow /\ build = "debug"
              THEN pc' = "panic" /\ UNCHANGED result
              ELSE /\ pc' = "normalized"
                   /\ result' = [result EXCEPT !.effective = e.exponent,
                                               !.exponent = e.exponent]
    /\ UNCHANGED <<op, ty, radix, bytes, surface>>

\* let (mantissa, exponent) = normalize_mantissa::<M>(mantissa, base, exponent);
ParseFloatNormalizeMantissa ==
    /\ op = "float" /\ pc = "normalized"
    /\ LET n == normalize_mantissa(ty, result.mantissa, radix, result.effective)
       IN  \E build \in Builds :
              IF n.overflow /\ build = "debug"
              THEN pc' = "panic" /\ UNCHANGED result
              ELSE /\ pc' = "done"
                   /\ result' = [result EXCEPT !.mantissa = n.mantissa,
                                               !.exponent = n.exponent]
    /\ UNCHANGED <<op, ty, radix, bytes, surface>>

FloatNext ==
    \/ ParseFloatMantissa
    \/ ParseFloatExponent
    \/ ParseFloatNormalizeExponent
    \/ ParseFloatNormalizeMantissa

SpecFloat == FloatInit /\ [][FloatNext]_vars

(***************************************************************************)
(* The extended path.  The cached powers of a radix are a read-only input: *)
(* a bias, a step and the number of large powers.  The bias is positive:   *)
(* the table spans negative exponents, and to_double_extended_test         *)
(* multiplies by 3^-695.                                                   *)
(***************************************************************************)
PowerTables ==
    {[bias |-> 695, step |-> 5, len |-> 280],
     [bias |-> 350, step |-> 10, len |-> 66]}

\* The first exponent past the large powers of a table.
TableEnd(powers) == powers.len * powers.step - powers.bias

\* Rust's `/` on i32 rounds towards zero.
i32_div(a, b) == IF a >= 0 THEN a \div b ELSE -((-a) \div b)

\* multiply_exponent_extended(fp, base, exponent, truncated) with the powers
\* of the base: zero below the table, infinity past it, and a product of
\* cached powers inside it, whose accuracy `valid` the multiplication
\* decides.  overflow: `exponent + powers.bias` left the i32 range.
multiply_exponent_extended(powers, exponent, truncated, valid) ==
    LET overflow == i32_add_overflows(exponent, powers.bias)
        biased == i32_wrapping_add(exponent, powers.bias)
        large_index == i32_div(biased, powers.step)
    IN  IF biased < 0
        THEN [kind |-> "zero", valid |-> TRUE, multiplied |-> FALSE, overflow |-> overflow]
        ELSE IF large_index >= powers.len
        THEN [kind |-> "infinity", valid |-> TRUE, multiplied |-> FALSE, overflow |-> overflow]
        ELSE [kind |-> "product", valid |-> valid, multiplied |-> TRUE, overflow |-> overflow]

\* Exponents around the ends of a table and around the ends of i32.
ExtendedExponents(powers) ==
    ((-powers.bias - Near)..(-powers.bias + Near))
    \cup ((TableEnd(powers) - powers.step - Near)..(TableEnd(powers) + Near))
    \cup ((I32_MAX - powers.bias - Near)..(I32_MAX - powers.bias + Near))
    \cup {I32_MAX - k : k \in 0..Near}
    \cup {I32_MIN + k : k \in 0..Near}
    \cup ((-Near)..Near)

ExtendedInit ==
    /\ op = "extended"
    /\ ty \in MantissaTypes
    /\ radix \in {3, 10}
    /\ bytes = <<>>
    /\ pc = "ready"
    /\ surface = "to_extended"
    /\ \E powers \in PowerTables :
          result \in [powers : {powers}, mantissa : {<<1>>, <<5>>},
                      exponent : ExtendedExponents(powers), truncated : BOOLEAN,
                      out : {"none"}, valid : {FALSE}, multiplied : {FALSE}]

\* to_extended(mantissa, base, exponent, truncated): the float of the
\* extended product when it is accurate, (F::ZERO, false) otherwise.
ToExtendedCall ==
    /\ op = "extended" /\ pc = "ready"
    /\ \E valid \in BOOLEAN, build \in Builds :
          LET fp == multiply_exponent_extended(result.powers, result.exponent,
                                               result.truncated, valid)
          IN  IF fp.overflow /\ build = "debug"
              THEN pc' = "panic" /\ UNCHANGED result
              ELSE /\ pc' = "done"
                   /\ result' = [result EXCEPT !.out = fp.kind, !.valid = fp.valid,
                                               !.multiplied = fp.multiplied]
    /\ UNCHANGED <<op, ty, radix, bytes, surface>>

ExtendedNext == ToExtendedCall

SpecExtended == ExtendedInit /\ [][ExtendedNext]_vars

(***************************************************************************)
(* The float drivers.  A target float F is its descriptor: the size of     *)
(* its mantissa and the binary exponents of its largest power of two and   *)
(* of its smallest denormal.  A returned float is "zero", "infinity",      *)
(* "finite" (a value made by the float's own arithmetic) or "bigfloat"     *)
(* (the value the arbitrary-precision path makes).                         *)
(***************************************************************************)
F32 == [mantissa_size |-> 23, max_pow2 |-> 127, min_pow2 |-> -149]
F64 == [mantissa_size |-> 52, max_pow2 |-> 1023, min_pow2 |-> -1074]

pow2_exponent(base) ==
    CASE base = 2 -> 1
      [] base = 4 -> 2
      [] base = 8 -> 3
      [] base = 16 -> 4
      [] base = 32 -> 5
      [] OTHER -> 0

\* The bits and the trailing zero bits of 0 < n < 2^15.
RECURSIVE small_bits(_)
small_bits(n) == IF n = 0 THEN 0 ELSE 1 + small_bits(n \div 2)

RECURSIVE small_trailing_zeros(_)
small_trailing_zeros(n) == IF n % 2 = 1 THEN 0 ELSE 1 + small_trailing_zeros(n \div 2)

\* 64 - mantissa.leading_zeros(): the number of bits of the mantissa,
\* fifteen bits at a time.
RECURSIVE BitLength(_)
BitLength(x) ==
    LET dm == BigDivMod(x, 2^15)
    IN  IF dm.q = <<>> THEN small_bits(dm.r) ELSE 15 + BitLength(dm.q)

\* mantissa.trailing_zeros(): 64 for a mantissa of zero.
RECURSIVE TrailingZeros(_)
TrailingZeros(x) ==
    LET dm == BigDivMod(x, 2^15)
    IN  IF x = <<>> THEN 64
        ELSE IF dm.r = 0 THEN 15 + TrailingZeros(dm.q)
        ELSE small_trailing_zeros(dm.r)

\* Mutant: the trailing zeros are not taken off.
is_halfway_from_bit_zero(F, mantissa) ==
    BitLength(mantissa) = F.mantissa_size + 2

is_halfway(F, mantissa) ==
    BitLength(mantissa) - TrailingZeros(mantissa) = F.mantissa_size + 2

\* The odd part of a radix.
RECURSIVE OddPart(_)
OddPart(r) == IF r % 2 = 0 THEN OddPart(r \div 2) ELSE r

\* The number of powers of r that F holds exactly: the powers of its odd
\* part below 2^(mantissa_size + 1).
ExactPowers(F, r) ==
    CHOOSE n \in 0..(F.mantissa_size + 1) :
        /\ BigCmp(BigPow(OddPart(r), n), BigPow(2, F.mantissa_size + 1)) < 0
        /\ BigCmp(BigPow(OddPart(r), n + 1), BigPow(2, F.mantissa_size + 1)) >= 0

ExactPowersOf == [F \in {F32, F64} |-> [r \in Radices |->
                     IF pow2_exponent(r) # 0 \/ r = 2 THEN 0 ELSE ExactPowers(F, r)]]

\* F::exponent_limit(base): for a power of two the exponents of the radix
\* that F spans, otherwise the powers of the radix that F holds exactly.
exponent_limit(F, base) ==
    IF pow2_exponent(base) # 0
    THEN [min_exp |-> i32_div(F.min_pow2, pow2_exponent(base)),
          max_exp |-> i32_div(F.max_pow2, pow2_exponent(base))]
    ELSE [min_exp |-> -ExactPowersOf[F][base], max_exp |-> ExactPowersOf[F][base]]

\* Mutant: the underflow bound is 65 exponents below min_exp for every radix.
pow2_to_exact_wide_underflow(F, mantissa, base, pow2_exp, exponent) ==
    LET lim == exponent_limit(F, base)
        underflow_exp == lim.min_exp - 65
        remainder == exponent - lim.min_exp
    IN  IF exponent > lim.max_exp THEN [out |-> "infinity", shifts |-> <<>>]
        ELSE IF exponent < underflow_exp THEN [out |-> "zero", shifts |-> <<>>]
        ELSE IF exponent < lim.min_exp
        THEN [out |-> "finite", shifts |-> <<pow2_exp * remainder, pow2_exp * lim.min_exp>>]
        ELSE [out |-> "finite", shifts |-> <<pow2_exp * exponent>>]

\* pow2_to_exact::<F>(mantissa, base, pow2_exp, exponent): the float, and
\* the arguments of the pow2 calls that made it.
pow2_to_exact(F, mantissa, base, pow2_exp, exponent) ==
    LET lim == exponent_limit(F, base)
        underflow_exp == lim.min_exp - i32_div(65, pow2_exp)
        remainder == exponent - lim.min_exp
    IN  IF exponent > lim.max_exp THEN [out |-> "infinity", shifts |-> <<>>]
        ELSE IF exponent < underflow_exp THEN [out |-> "zero", shifts |-> <<>>]
        ELSE IF exponent < lim.min_exp
        THEN [out |-> "finite", shifts |-> <<pow2_exp * remainder, pow2_exp * lim.min_exp>>]
        ELSE [out |-> "finite", shifts |-> <<pow2_exp * exponent>>]

\* Mutant: a mantissa with the hidden bit set is still taken.
to_exact_hidden_bit(F, mantissa, base, exponent) ==
    LET lim == exponent_limit(F, base)
    IN  IF BitLength(mantissa) > F.mantissa_size + 1 THEN [out |-> "zero", valid |-> FALSE]
        ELSE IF exponent = 0 THEN [out |-> "finite", valid |-> TRUE]
        ELSE IF exponent >= lim.min_exp /\ exponent <= lim.max_exp
        THEN [out |-> "finite", valid |-> TRUE]
        ELSE [out |-> "zero", valid |-> FALSE]

\* to_exact::<F>(mantissa, base, exponent): the float and whether it is exact.
to_exact(F, mantissa, base, exponent) ==
    LET lim == exponent_limit(F, base)
    IN  IF BitLength(mantissa) > F.mantissa_size THEN [out |-> "zero", valid |-> FALSE]
        ELSE IF exponent = 0 THEN [out |-> "finite", valid |-> TRUE]
        ELSE IF exponent >= lim.min_exp /\ exponent <= lim.max_exp
        THEN [out |-> "finite", valid |-> TRUE]
        ELSE [out |-> "zero", valid |-> FALSE]

\* to_extended: the float of the extended product when it is accurate.
to_extended(powers, exponent, truncated, valid) ==
    LET fp == multiply_exponent_extended(powers, exponent, truncated, valid)
    IN  [out |-> IF ~fp.valid THEN "zero"
                 ELSE IF fp.kind = "product" THEN "finite" ELSE fp.kind,
         valid |-> fp.valid, overflow |-> fp.overflow]

\* What to_native returns: the float, the path that made it, the paths it
\* tried in order with what each reported, and the end position.  again:
\* the lossy driver goes on to parse_float::<u128>.
Returned(out, tried, ok, pos, overflow, again) ==
    [out |-> out, path |-> IF tried = <<>> THEN "literal" ELSE tried[Len(tried)],
     tried |-> tried, ok |-> ok, pos |-> pos, overflow |-> overflow, again |-> again]

\* Mutant: a power-of-two radix whose exponent is out of range falls through
\* to the extended path.
to_native_pow2_falls_through(F, base, pf, powers, valid, lossy) ==
    LET pow2_exp == pow2_exponent(base)
        pow2 == pow2_to_exact(F, pf.mantissa, base, pow2_exp, pf.exponent).out
        exact == to_exact(F, pf.mantissa, base, pf.exponent)
        ext == to_extended(powers, pf.exponent, pf.truncated, valid)
        head == IF pow2_exp # 0 THEN <<"pow2">>
                ELSE IF pf.truncated THEN <<>> ELSE <<"exact">>
        failed == IF head = <<>> THEN <<>> ELSE <<FALSE>>
    IN  IF pf.mantissa = <<>>
        THEN Returned("zero", <<>>, <<>>, pf.pos, FALSE, FALSE)
        ELSE IF pow2_exp # 0 /\ pf.truncated /\ is_halfway(F, pf.mantissa)
        THEN Returned("bigfloat", <<"bigfloat">>, <<TRUE>>, pf.pos, FALSE, FALSE)
        ELSE IF pow2_exp # 0 /\ pow2 = "finite"
        THEN Returned(pow2, <<"pow2">>, <<TRUE>>, pf.pos, FALSE, FALSE)
        ELSE IF pow2_exp = 0 /\ ~pf.truncated /\ exact.valid
        THEN Returned(exact.out, <<"exact">>, <<TRUE>>, pf.pos, FALSE, FALSE)
        ELSE IF ext.valid
        THEN Returned(ext.out, head \o <<"extended">>, failed \o <<TRUE>>,
                      pf.pos, ext.overflow, FALSE)
        ELSE IF lossy
        THEN Returned("none", head \o <<"extended">>, failed \o <<FALSE>>,
                      pf.pos, ext.overflow, TRUE)
        ELSE Returned("bigfloat", head \o <<"extended", "bigfloat">>,
                      failed \o <<FALSE, TRUE>>, pf.pos, ext.overflow, FALSE)

\* to_native::<F>(base, first, last, lossy) after its parse_float::<u64>, up
\* to its return or to the parse_float::<u128> of the lossy driver: pf is the
\* parsed float, powers the cached powers of the base, valid the accuracy of
\* an 80-bit extended product.
to_native(F, base, pf, powers, valid, lossy) ==
    LET pow2_exp == pow2_exponent(base)
        exact == to_exact(F, pf.mantissa, base, pf.exponent)
        ext == to_extended(powers, pf.exponent, pf.truncated, valid)
        head == IF pf.truncated THEN <<>> ELSE <<"exact">>
        failed == IF pf.truncated THEN <<>> ELSE <<FALSE>>
    IN  IF pf.mantissa = <<>>
        THEN Returned("zero", <<>>, <<>>, pf.pos, FALSE, FALSE)
        ELSE IF pow2_exp # 0
        THEN IF pf.truncated /\ is_halfway(F, pf.mantissa)
             THEN Returned("bigfloat", <<"bigfloat">>, <<TRUE>>, pf.pos, FALSE, FALSE)
             ELSE Returned(pow2_to_exact(F, pf.mantissa, base, pow2_exp, pf.exponent).out,
                           <<"pow2">>, <<TRUE>>, pf.pos, FALSE, FALSE)
        ELSE IF ~pf.truncated /\ exact.valid
        THEN Returned(exact.out, <<"exact">>, <<TRUE>>, pf.pos, FALSE, FALSE)
        ELSE IF ext.valid
        THEN Returned(ext.out, head \o <<"extended">>, failed \o <<TRUE>>,
                      pf.pos, ext.overflow, FALSE)
        ELSE IF lossy
        THEN Returned("none", head \o <<"extended">>, failed \o <<FALSE>>,
                      pf.pos, ext.overflow, TRUE)
        ELSE Returned("bigfloat", head \o <<"extended", "bigfloat">>,
                      failed \o <<FALSE, TRUE>>, pf.pos, ext.overflow, FALSE)

\* The end of the lossy to_native: to_extended::<F, u128> of the second
\* parse, returned whatever it reports; the 128-bit product is always
\* accurate.
to_native_lossy(pf, powers, tried, ok) ==
    LET ext == to_extended(powers, pf.exponent, pf.truncated, TRUE)
    IN  Returned(ext.out, tried \o <<"extended128">>, ok \o <<ext.valid>>,
                 pf.pos, ext.overflow, FALSE)

DriverFloat == [atof |-> F32, atod |-> F64, atof_lossy |-> F32, atod_lossy |-> F64]
Drivers == {"atof", "atod", "atof_lossy", "atod_lossy"}
Lossy == {"atof_lossy", "atod_lossy"}

\* Whole numbers with every exponent section, fractions with the small ones.
NativeInputs(r) ==
    {x \o y : x \in {<<49>>, <<49, ZERO_CH>>, <<TopDigit(r)>>, <<ZERO_CH>>},
              y \in SmallSections(r) \cup LargeSections(r)}
    \cup {x \o y : x \in {<<DOT, 49>>, <<49, DOT, TopDigit(r)>>, <<ZERO_CH, DOT, ZERO_CH>>}
                        \cup IF r = 2 THEN {<<49>> \o Rep(ZERO_CH, 64) \o <<49>>,
                                            Rep(49, 54) \o Rep(ZERO_CH, 11)}
                             ELSE IF r = 10 THEN {<<49>> \o Rep(ZERO_CH, 20)}
                             ELSE {},
                   y \in SmallSections(r)}

\* The parsed float of the driver, and the paths the driver has tried.
NativeStart ==
    [mantissa |-> <<>>, dot_shift |-> 0, pos |-> 0, truncated |-> FALSE,
     parsed |-> 0, effective |-> 0, exponent |-> 0, tried |-> <<>>, ok |-> <<>>]

NativeInit ==
    /\ op = "float"
    /\ ty = U64
    /\ radix \in FloatRadices
    /\ bytes \in NativeInputs(radix)
    /\ pc = "ready"
    /\ surface \in Drivers
    /\ result = NativeStart

\* The rest of to_native once parse_float::<u64> has returned: it returns,
\* or the lossy driver starts parse_float::<u128> on the same bytes.
ToNativeCall ==
    /\ op = "float" /\ pc = "done" /\ ty = U64 /\ surface \in Drivers
    /\ \E powers \in PowerTables, valid \in BOOLEAN, build \in Builds :
          LET f == to_native(DriverFloat[surface], radix, result, powers,
                             valid, surface \in Lossy)
          IN  IF f.overflow /\ build = "debug"
              THEN pc' = "panic" /\ UNCHANGED <<result, ty>>
              ELSE IF f.again
              THEN /\ pc' = "ready" /\ ty' = U128
                   /\ result' = [NativeStart EXCEPT !.tried = f.tried, !.ok = f.ok]
              ELSE /\ pc' = "returned" /\ UNCHANGED ty
                   /\ result' = [out |-> f.out, path |-> f.path, tried |-> f.tried,
                                 ok |-> f.ok, pos |-> f.pos]
    /\ UNCHANGED <<op, radix, bytes, surface>>

\* The rest of the lossy to_native once parse_float::<u128> has returned.
ToNativeLossyCall ==
    /\ op = "float" /\ pc = "done" /\ ty = U128 /\ surface \in Lossy
    /\ \E powers \in PowerTables, build \in Builds :
          LET f == to_native_lossy(result, powers, result.tried, result.ok)
          IN  IF f.overflow /\ build = "debug"
              THEN pc' = "panic" /\ UNCHANGED result
              ELSE /\ pc' = "returned"
                   /\ result' = [out |-> f.out, path |-> f.path, tried |-> f.tried,
                                 ok |-> f.ok, pos |-> f.pos]
    /\ UNCHANGED <<op, ty, radix, bytes, surface>>

NativeNext == FloatNext \/ ToNativeCall \/ ToNativeLossyCall

SpecNative == NativeInit /\ [][NativeNext]_vars

(***************************************************************************)
(* The exact paths on their own: pow2_to_exact over the power-of-two       *)
(* radices and to_exact over the others, with exponents around every       *)
(* bound of the float and mantissas around its mantissa size.              *)
(***************************************************************************)
\* 2^n for n < 128.
big_pow2(n) == BigMulAdd(BigPow(2^15, n \div 15), 2^(n % 15), 0)

Pow2Bases == {2, 4, 8, 16, 32}
ExactBases == {3, 5, 10, 36}

\* n - Near .. n + Near
Around(n) == (n - Near)..(n + Near)

ExactExponents(F, base) ==
    LET lim == exponent_limit(F, base)
        p == pow2_exponent(base)
    IN  Around(lim.min_exp) \cup Around(lim.max_exp) \cup Around(0)
        \cup (IF p = 0 THEN {}
              ELSE Around(lim.min_exp - i32_div(65, p)) \cup Around(lim.min_exp - 65)
                   \cup {lim.min_exp - 20, lim.max_exp + 29})

\* 0, 1, 2^n - 1, 2^n and 2^n + 1 around the mantissa size, and 2^63.
ExactMantissas(F) ==
    {<<>>, <<1>>, big_pow2(63)}
    \cup {BigPred(big_pow2(F.mantissa_size + k)) : k \in 0..1}
    \cup {big_pow2(F.mantissa_size + k) : k \in -1..1}
    \cup {BigMulAdd(big_pow2(F.mantissa_size), 1, 1)}

ExactInit ==
    /\ op = "exact" /\ ty = U64 /\ bytes = <<>> /\ pc = "ready"
    /\ surface \in {"atof", "atod"}
    /\ radix \in Pow2Bases \cup ExactBases
    /\ \E mantissa \in ExactMantissas(DriverFloat[surface]),
          exponent \in ExactExponents(DriverFloat[surface], radix) :
          result = [mantissa |-> mantissa, exponent |-> exponent,
                    out |-> "none", shifts |-> <<>>, valid |-> FALSE]

Pow2ToExactCall ==
    /\ op = "exact" /\ pc = "ready" /\ pow2_exponent(radix) # 0
    /\ LET f == pow2_to_exact(DriverFloat[surface], result.mantissa, radix,
                              pow2_exponent(radix), result.exponent)
       IN  result' = [result EXCEPT !.out = f.out, !.shifts = f.shifts, !.valid = TRUE]
    /\ pc' = "done"
    /\ UNCHANGED <<op, ty, radix, bytes, surface>>

ToExactCall ==
    /\ op = "exact" /\ pc = "ready" /\ pow2_exponent(radix) = 0
    /\ LET f == to_exact(DriverFloat[surface], result.mantissa, radix, result.exponent)
       IN  result' = [result EXCEPT !.out = f.out, !.valid = f.valid]
    /\ pc' = "done"
    /\ UNCHANGED <<op, ty, radix, bytes, surface>>

ExactNext == Pow2ToExactCall \/ ToExactCall
SpecExact == ExactInit /\ [][ExactNext]_vars

(***************************************************************************)
(* is_halfway on its own, for both floats at once, over mantissas whose    *)
(* set bits span about as many bits as a halfway value of f32 or f64, and  *)
(* over their doubles.                                                     *)
(***************************************************************************)
MaxDoublings == 2

HalfwaySpans == {1, 2} \cup Around(F32.mantissa_size + 2) \cup Around(F64.mantissa_size + 2)
HalfwayLowBits == {0, 1, 10}

\* The spans above `least` that fit a u64 from bit l.
SpansFrom(l, least) == {n \in HalfwaySpans : n > least /\ l + n <= 64}

\* Bit l and bit l + span - 1, alone or with the bit below the highest.
HalfwayMantissas ==
    {<<>>}
    \cup {big_pow2(l) : l \in HalfwayLowBits}
    \cup UNION {{BigAdd(big_pow2(l + n - 1), big_pow2(l)) : n \in SpansFrom(l, 1)} :
                  l \in HalfwayLowBits}
    \cup UNION {{BigAdd(BigAdd(big_pow2(l + n - 1), big_pow2(l + n - 2)), big_pow2(l)) :
                   n \in SpansFrom(l, 2)} : l \in HalfwayLowBits}

HalfwayInit ==
    /\ op = "halfway" /\ ty = U64 /\ radix = 2 /\ bytes = <<>>
    /\ pc = "ready" /\ surface = "is_halfway"
    /\ \E mantissa \in HalfwayMantissas :
          result = [mantissa |-> mantissa, f32 |-> FALSE, f64 |-> FALSE,
                    was |-> [f32 |-> FALSE, f64 |-> FALSE], doubled |-> 0]

\* is_halfway::<f32>(mantissa), is_halfway::<f64>(mantissa)
IsHalfwayCall ==
    /\ op = "halfway" /\ pc = "ready"
    /\ result' = [result EXCEPT !.f32 = is_halfway(F32, result.mantissa),
                                !.f64 = is_halfway(F64, result.mantissa)]
    /\ pc' = "done"
    /\ UNCHANGED <<op, ty, radix, bytes, surface>>

\* The caller doubles a mantissa that has its highest bit free.
DoubleMantissa ==
    /\ op = "halfway" /\ pc = "done"
    /\ result.doubled < MaxDoublings
    /\ BitLength(result.mantissa) < 64
    /\ result' = [result EXCEPT !.mantissa = BigMulAdd(result.mantissa, 2, 0),
                                !.was = [f32 |-> result.f32, f64 |-> result.f64],
                                !.doubled = @ + 1]
    /\ pc' = "ready"
    /\ UNCHANGED <<op, ty, radix, bytes, surface>>

HalfwayNext == IsHalfwayCall \/ DoubleMantissa
SpecHalfway == HalfwayInit /\ [][HalfwayNext]_vars

(***************************************************************************)
(* The error bound of the 80-bit extended path.  A u64 is four words of    *)
(* sixteen bits, lowest first; an i64 is the same bits read as two's       *)
(* complement.                                                             *)
(***************************************************************************)
WORD == 2^16
Words == 1..4

\* A u32 as u64.
u64_of(n) ==
    [i \in Words |-> IF i = 1 THEN n % WORD ELSE IF i = 2 THEN n \div WORD ELSE 0]
u64_pow2(n) == [i \in Words |-> IF n \div 16 = i - 1 THEN 2^(n % 16) ELSE 0]

RECURSIVE word_and(_, _)
word_and(a, b) ==
    IF a = 0 \/ b = 0 THEN 0 ELSE (a % 2) * (b % 2) + 2 * word_and(a \div 2, b \div 2)

u64_and(x, y) == [i \in Words |-> word_and(x[i], y[i])]

\* The carry into word i of x + y.
RECURSIVE carry_into(_, _, _)
carry_into(x, y, i) ==
    IF i = 1 THEN 0 ELSE (x[i - 1] + y[i - 1] + carry_into(x, y, i - 1)) \div WORD

\* The borrow into word i of x - y.
RECURSIVE borrow_into(_, _, _)
borrow_into(x, y, i) ==
    IF i = 1 THEN 0
    ELSE IF x[i - 1] - y[i - 1] - borrow_into(x, y, i - 1) < 0 THEN 1 ELSE 0

u64_wrapping_add(x, y) == [i \in Words |-> (x[i] + y[i] + carry_into(x, y, i)) % WORD]
u64_wrapping_sub(x, y) == [i \in Words |-> (x[i] - y[i] - borrow_into(x, y, i)) % WORD]

\* x.u64_overflowing_add(y).1
u64_overflowing_add(x, y) == carry_into(x, y, 5) = 1

\* x.as_i64() < y.as_i64(): the sign bit counts as the lowest.
as_i64_key(x) == [x EXCEPT ![4] = (@ + WORD \div 2) % WORD]

RECURSIVE words_less(_, _, _)
words_less(x, y, i) ==
    IF i = 0 THEN FALSE
    ELSE IF x[i] # y[i] THEN x[i] < y[i]
    ELSE words_less(x, y, i - 1)

i64_less(x, y) == words_less(as_i64_key(x), as_i64_key(y), 4)

\* lower_n_mask(n): the n low bits set; lower_n_halfway(n): bit n - 1 set.
lower_n_mask(n) ==
    [i \in Words |-> IF n >= 16 * i THEN WORD - 1
                     ELSE IF n <= 16 * (i - 1) THEN 0
                     ELSE 2^(n - 16 * (i - 1)) - 1]
lower_n_halfway(n) == IF n = 0 THEN u64_of(0) ELSE u64_pow2(n - 1)

error_halfscale == 4

\* F::EXPONENT_BIAS: one more than the exponent of the smallest denormal,
\* negated.
EXPONENT_BIAS(F) == 1 - F.min_pow2

extrabits_of(F, exp) ==
    LET bias == -(EXPONENT_BIAS(F) - F.mantissa_size)
        denormal_exp == bias - 63
    IN  IF exp <= denormal_exp THEN 64 - F.mantissa_size + denormal_exp - exp
        ELSE 63 - F.mantissa_size

\* Mutant: the comparisons admit their bounds.
error_is_accurate_closed(F, count, fp) ==
    LET extrabits == extrabits_of(F, fp.exp)
        errors == u64_of(count)
        halfway == lower_n_halfway(extrabits)
        extra == u64_and(fp.frac, lower_n_mask(extrabits))
        cmp1 == ~i64_less(extra, u64_wrapping_sub(halfway, errors))
        cmp2 == ~i64_less(u64_wrapping_add(halfway, errors), extra)
    IN  IF extrabits > 65 THEN TRUE
        ELSE IF extrabits = 65 THEN ~u64_overflowing_add(fp.frac, errors)
        ELSE ~(cmp1 /\ cmp2)

\* <u64 as FloatErrors>::error_is_accurate::<F>(count, fp)
error_is_accurate(F, count, fp) ==
    LET extrabits == extrabits_of(F, fp.exp)
        errors == u64_of(count)
        mask == lower_n_mask(extrabits)
        halfway == lower_n_halfway(extrabits)
        extra == u64_and(fp.frac, mask)
        cmp1 == i64_less(u64_wrapping_sub(halfway, errors), extra)
        cmp2 == i64_less(extra, u64_wrapping_add(halfway, errors))
    IN  IF extrabits > 65 THEN TRUE
        ELSE IF extrabits = 65 THEN ~u64_overflowing_add(fp.frac, errors)
        ELSE ~(cmp1 /\ cmp2)

\* Mutant: the large multiplication adds a half scale for an earlier error.
extended_errors_half_scales(truncated, full_small, shift) ==
    LET start == (IF truncated THEN 1 ELSE 0) * error_halfscale
        small == IF full_small THEN start + error_halfscale ELSE start
        large == small + (IF small > 0 THEN error_halfscale ELSE 0) + error_halfscale
    IN  [unshifted |-> large, errors |-> large * 2^shift]

\* The error counter of multiply_exponent_extended::<F, u64>: full_small is
\* whether the small power overflowed the integer multiplication, shift what
\* the last normalize() returned.  The u32 counter stays far below 2^32.
extended_errors(truncated, full_small, shift) ==
    LET start == (IF truncated THEN 1 ELSE 0) * error_halfscale
        small == IF full_small THEN start + error_halfscale ELSE start
        large == small + (IF small > 0 THEN 1 ELSE 0) + error_halfscale
    IN  [unshifted |-> large, errors |-> large * 2^shift]

\* The largest error counter: 13 shifted once.
MaxErrors == 26

\* The extra bits to look at: a normal float, denormals down to the
\* smallest, and beyond.
ExtraBits(F) == {63 - F.mantissa_size, 64 - F.mantissa_size, 48, 62, 63, 64, 65, 66}

\* An exponent of the extended float that leaves n extra bits.
ExpFor(F, n) ==
    LET denormal_exp == -(EXPONENT_BIAS(F) - F.mantissa_size) - 63
    IN  IF n = 63 - F.mantissa_size THEN denormal_exp + 1
        ELSE denormal_exp - (n - (64 - F.mantissa_size))

\* Fracs whose extra bits lie around the halfway point, the bits above set.
FracsAround(n) ==
    LET high == IF n >= 64 THEN u64_of(0)
                ELSE u64_wrapping_sub(u64_of(0), u64_pow2(n))
        half == lower_n_halfway(IF n > 64 THEN 64 ELSE n)
    IN  {u64_wrapping_add(high, u64_wrapping_add(half, u64_of(k))) : k \in 0..(MaxErrors + 1)}
        \cup {u64_wrapping_add(high, u64_wrapping_sub(half, u64_of(k))) : k \in 0..(MaxErrors + 1)}
        \cup {u64_wrapping_sub(u64_of(0), u64_of(k)) : k \in 1..(MaxErrors + 1)}

AccuracyInit ==
    /\ op = "accuracy" /\ ty = U64 /\ radix = 10 /\ bytes = <<>>
    /\ pc = "ready" /\ surface \in {"atof", "atod"}
    /\ \E n \in ExtraBits(DriverFloat[surface]), truncated \in BOOLEAN,
          full_small \in BOOLEAN, shift \in 0..1 :
          \E frac \in FracsAround(n) :
             result = [fp |-> [frac |-> frac, exp |-> ExpFor(DriverFloat[surface], n)],
                       truncated |-> truncated, full_small |-> full_small,
                       shift |-> shift, unshifted |-> 0, errors |-> 0, valid |-> FALSE]

\* multiply_exponent_extended up to its last normalize(): the counter.
CountErrors ==
    /\ op = "accuracy" /\ pc = "ready"
    /\ LET e == extended_errors(result.truncated, result.full_small, result.shift)
       IN  result' = [result EXCEPT !.unshifted = e.unshifted, !.errors = e.errors]
    /\ pc' = "counted"
    /\ UNCHANGED <<op, ty, radix, bytes, surface>>

\* M::error_is_accurate::<F>(errors, &fp)
ErrorIsAccurate ==
    /\ op = "accuracy" /\ pc = "counted"
    /\ result' = [result EXCEPT
                     !.valid = error_is_accurate(DriverFloat[surface], result.errors, result.fp)]
    /\ pc' = "done"
    /\ UNCHANGED <<op, ty, radix, bytes, surface>>

AccuracyNext == CountErrors \/ ErrorIsAccurate
SpecAccuracy == AccuracyInit /\ [][AccuracyNext]_vars

(***************************************************************************)
(* Bigfloat: little-endian limbs of LIMB_BITS bits and a binary exponent,  *)
(* standing for (sum of limb_i * 2^(i * LIMB_BITS)) * 2^exp.  The limbs    *)
(* are narrower here than the 32 or 64 bits of a build; the operations are *)
(* the same for every width.                                               *)
(***************************************************************************)
LIMB_BITS == 8
LimbBase == 2^LIMB_BITS

\* The limbs without their high zeros.
RECURSIVE small_normalize(_)
small_normalize(x) ==
    IF x # <<>> /\ x[Len(x)] = 0 THEN small_normalize(SubSeq(x, 1, Len(x) - 1)) ELSE x

RECURSIVE from_u32(_)
from_u32(n) == IF n = 0 THEN <<>> ELSE <<n % LimbBase>> \o from_u32(n \div LimbBase)

\* Bigfloat::from_float of an extended float whose mantissa is 2^bit.
from_float(bit, exp) ==
    [data |-> Rep(0, bit \div LIMB_BITS) \o <<2^(bit % LIMB_BITS)>>, exp |-> exp]

\* In-place multiplication by a small integer, limb by limb with a carry.
RECURSIVE imul_small(_, _, _)
imul_small(x, k, carry) ==
    IF x = <<>> THEN from_u32(carry)
    ELSE LET t == x[1] * k + carry
         IN  <<t % LimbBase>> \o imul_small(Tail(x), k, t \div LimbBase)

RECURSIVE iadd(_, _, _)
iadd(x, y, carry) ==
    IF x = <<>> /\ y = <<>> THEN from_u32(carry)
    ELSE LET a == IF x = <<>> THEN 0 ELSE x[1]
             b == IF y = <<>> THEN 0 ELSE y[1]
             t == a + b + carry
         IN  <<t % LimbBase>>
             \o iadd(IF x = <<>> THEN x ELSE Tail(x), IF y = <<>> THEN y ELSE Tail(y),
                     t \div LimbBase)

\* Schoolbook multiplication: each limb of y times x, shifted to its place.
RECURSIVE long_mul(_, _)
long_mul(x, y) ==
    IF y = <<>> THEN <<>>
    ELSE small_normalize(iadd(imul_small(x, y[1], 0), <<0>> \o long_mul(x, Tail(y)), 0))

\* Mutant: the bits shifted out of the highest limb are dropped.
RECURSIVE shl_bits_losing_top(_, _, _)
shl_bits_losing_top(x, n, carry) ==
    IF x = <<>> THEN <<>>
    ELSE LET t == x[1] * 2^n + carry
         IN  <<t % LimbBase>> \o shl_bits_losing_top(Tail(x), n, t \div LimbBase)

\* shl_bits(n), n < LIMB_BITS: every limb moves up n bits, its high bits
\* into the next limb, the last ones into a new limb.
RECURSIVE shl_bits(_, _, _)
shl_bits(x, n, carry) ==
    IF x = <<>> THEN (IF carry = 0 THEN <<>> ELSE <<carry>>)
    ELSE LET t == x[1] * 2^n + carry
         IN  <<t % LimbBase>> \o shl_bits(Tail(x), n, t \div LimbBase)

\* The power by repeated squaring.
RECURSIVE pow_loop(_, _, _)
pow_loop(x, factor, n) ==
    IF n = 0 THEN x
    ELSE pow_loop(IF n % 2 = 1 THEN long_mul(x, factor) ELSE x,
                  IF n > 1 THEN long_mul(factor, factor) ELSE factor, n \div 2)

\* The number of times two divides the base.
RECURSIVE pow2_of(_)
pow2_of(base) == IF base % 2 = 0 THEN 1 + pow2_of(base \div 2) ELSE 0

\* pow(base, n): the odd part of the base goes into the limbs, its powers
\* of two into the exponent.
pow(x, base, n) ==
    [data |-> pow_loop(x.data, from_u32(OddPart(base)), n), exp |-> x.exp + n * pow2_of(base)]

\* x *= y
mul_assign(x, y) == [data |-> long_mul(x.data, y.data), exp |-> x.exp + y.exp]

MaxPow == 10
MaxCalls == 2
BigfloatBases == {2, 3, 10, 12, 36}
BigfloatPowers == {0, 1, 2, 3, MaxPow}
BigfloatStarts ==
    {[data |-> from_u32(v), exp |-> e] : v \in {0, 1, 3, 255, 256, 19531250}, e \in {0, 11}}
Multipliers ==
    {from_float(63, -63), [data |-> from_u32(255), exp |-> 0],
     [data |-> from_u32(65535), exp |-> 3], [data |-> <<>>, exp |-> 0]}

BigfloatInit ==
    /\ op = "bigfloat" /\ ty = U64 /\ radix = 10 /\ bytes = <<>>
    /\ pc = "ready" /\ surface = "Bigfloat"
    /\ \E x \in BigfloatStarts :
          result = [data |-> x.data, exp |-> x.exp, was |-> x, calls |-> 0,
                    call |-> [name |-> "new", base |-> 0, n |-> 0, y |-> x]]

BigfloatCalled(x, name, base, n, y) ==
    /\ result' = [data |-> x.data, exp |-> x.exp,
                  was |-> [data |-> result.data, exp |-> result.exp],
                  calls |-> result.calls + 1,
                  call |-> [name |-> name, base |-> base, n |-> n, y |-> y]]
    /\ pc' = "called"
    /\ UNCHANGED <<op, ty, radix, bytes, surface>>

BigfloatPow ==
    /\ op = "bigfloat" /\ result.calls < MaxCalls
    /\ \E base \in BigfloatBases, n \in BigfloatPowers :
          BigfloatCalled(pow(result, base, n), "pow", base, n, result.was)

BigfloatShlBits ==
    /\ op = "bigfloat" /\ result.calls < MaxCalls
    /\ \E n \in 0..(LIMB_BITS - 1) :
          BigfloatCalled([data |-> shl_bits(result.data, n, 0), exp |-> result.exp],
                         "shl_bits", 0, n, result.was)

BigfloatMulAssign ==
    /\ op = "bigfloat" /\ result.calls < MaxCalls
    /\ \E y \in Multipliers :
          BigfloatCalled(mul_assign(result, y), "mul_assign", 0, 0, y)

BigfloatNext == BigfloatPow \/ BigfloatShlBits \/ BigfloatMulAssign
SpecBigfloat == BigfloatInit /\ [][BigfloatNext]_vars

(***************************************************************************)
(* What an input denotes, read off the bytes without the parser: the       *)
(* digit characters and their values come from the digit tables, the       *)
(* value of a digit string from positional notation.                       *)
(***************************************************************************)
DigitTable ==
    [b \in Byte |->
        IF \E v \in 0..35 : LowerDigits[v + 1] = b \/ UpperDigits[v + 1] = b
        THEN CHOOSE v \in 0..35 : LowerDigits[v + 1] = b \/ UpperDigits[v + 1] = b
        ELSE MAX_RADIX]

DigitValue(b) == DigitTable[b]

IsDigitOf(b, r) == DigitTable[b] < r

\* The number of leading sign bytes a parser of signedness `signed` takes.
SignBytes(s, signed) ==
    IF Len(s) >= 1 /\ (s[1] = PLUS \/ (s[1] = MINUS /\ signed)) THEN 1 ELSE 0

IsNegative(s, signed) == Len(s) >= 1 /\ s[1] = MINUS /\ signed

\* The index of the last byte of the longest run of radix-r digits that
\* starts right after index `from` (`from` itself when the run is empty).
RECURSIVE RunEnd(_, _, _)
RunEnd(s, r, from) ==
    IF from < Len(s) /\ IsDigitOf(s[from + 1], r) THEN RunEnd(s, r, from + 1) ELSE from

\* The value of the digits s[a..b] in radix r.
RECURSIVE ValueOf(_, _, _, _)
ValueOf(s, a, b, r) ==
    IF b < a THEN 0 ELSE DigitValue(s[b]) + r * ValueOf(s, a, b - 1, r)

SignedValueOf(s, a, b, r, neg) ==
    IF neg THEN -ValueOf(s, a, b, r) ELSE ValueOf(s, a, b, r)

InRange(T, v) == min_value(T) <= v /\ v <= max_value(T)

\* The digit run of the input after its consumed sign, and what it denotes.
RunStart == SignBytes(bytes, ty.signed)
RunStop == RunEnd(bytes, radix, RunStart)
RunValue == SignedValueOf(bytes, RunStart + 1, RunStop, radix, IsNegative(bytes, ty.signed))
HasDigits == RunStop > RunStart
RangeCode == IF IsNegative(bytes, ty.signed) THEN "Underflow" ELSE "Overflow"

\* The 1-based index of the first digit at which the consumed prefix
\* denotes a value outside the range of T.
FirstOutOfRange ==
    CHOOSE e \in (RunStart + 1)..RunStop :
        /\ ~InRange(ty, SignedValueOf(bytes, RunStart + 1, e, radix, IsNegative(bytes, ty.signed)))
        /\ \A k \in (RunStart + 1)..(e - 1) :
              InRange(ty, SignedValueOf(bytes, RunStart + 1, k, radix, IsNegative(bytes, ty.signed)))

Done == op = "atoi" /\ pc = "done"

(***************************************************************************)
(* C1.  Every value n of an integer type, written in any radix 2..36 with  *)
(* an optional '+', a '-' when negative and letter digits in either case,  *)
(* parses to n with the position at the end of the input; this includes    *)
(* the most negative value of a signed type.                               *)
(***************************************************************************)
IsNumeral == HasDigits /\ RunStop = Len(bytes)

C1_RoundTrip ==
    (Done /\ IsNumeral /\ InRange(ty, RunValue))
        => result = Ok(RunValue, Len(bytes))

C1_Witness ==
    /\ Done /\ ty = I8 /\ radix = 10
    /\ bytes = <<MINUS, 49, 50, 56>>
    /\ result = Ok(-128, 4)

(***************************************************************************)
(* C2.  When the digits denote a value outside the range of T, the parser  *)
(* fails with Overflow (no sign, or '+') or Underflow ('-') at the index   *)
(* of the first digit at which the consumed prefix leaves the range,       *)
(* whatever bytes follow that digit.                                       *)
(***************************************************************************)
C2_RangeError ==
    (Done /\ HasDigits /\ ~InRange(ty, RunValue))
        => result = Err(RangeCode, FirstOutOfRange - 1)

C2_Witness ==
    /\ Done /\ ty = I8 /\ radix = 10
    /\ bytes = <<MINUS, 49, 50, 57, SPACE>>
    /\ result = Err("Underflow", 3)

(***************************************************************************)
(* C3.  A leading '+' is consumed by the signed and by the unsigned        *)
(* parser, a leading '-' only by the signed parser: the digits after a     *)
(* consumed sign are read with that sign.  An unsigned parse of an input   *)
(* starting with '-' consumes nothing: the strict surface fails with       *)
(* InvalidDigit at position 0, the leading surface returns 0 at            *)
(* position 0.                                                             *)
(***************************************************************************)
StartsWithSign == Len(bytes) >= 1 /\ bytes[1] \in {PLUS, MINUS}
UnsignedMinus == StartsWithSign /\ bytes[1] = MINUS /\ ~ty.signed

\* The result reflects a consumed sign: the parse went past byte 0 and a
\* successful value is that of the digits after the sign, negated for '-'.
SignConsumed ==
    /\ result.pos >= 1
    /\ result.ok =>
           result.value = SignedValueOf(bytes, 2, result.pos, radix, bytes[1] = MINUS)

C3_SignHandling ==
    (Done /\ StartsWithSign) =>
        IF UnsignedMinus
        THEN /\ surface = "strict" => result = Err("InvalidDigit", 0)
             /\ surface = "leading" => result = Ok(0, 0)
        ELSE SignConsumed

C3_Witness ==
    /\ Done /\ ty = U8 /\ surface = "leading"
    /\ bytes = <<MINUS, 49>>
    /\ result = Ok(0, 0)

\* The claim as stated: the unsigned parser fails on every surface.
C3_Original ==
    (Done /\ StartsWithSign) =>
        IF UnsignedMinus THEN result = Err("InvalidDigit", 0) ELSE SignConsumed

(***************************************************************************)
(* C4.  The parser fails with Empty at position 0 on the empty input and   *)
(* with Empty at position 1 on an input that is one consumed sign byte:    *)
(* '+' for both parsers, '-' for the signed parser.                        *)
(***************************************************************************)
C4_Empty ==
    Done =>
        /\ Len(bytes) = 0 => result = Err("Empty", 0)
        /\ (Len(bytes) = 1 /\ SignBytes(bytes, ty.signed) = 1) => result = Err("Empty", 1)

C4_Witness ==
    /\ Done /\ ty = I8
    /\ bytes = <<MINUS>>
    /\ result = Err("Empty", 1)

(***************************************************************************)
(* C5.  An in-range digit prefix followed, at index i, by a byte that is   *)
(* not a digit of the radix: the leading surface returns the prefix value  *)
(* with consumed = i > 0, the strict surface InvalidDigit at i.  A second  *)
(* sign byte right after a consumed sign gives InvalidDigit at index 1 in  *)
(* the strict surface.                                                     *)
(***************************************************************************)
ValidPrefix == HasDigits /\ InRange(ty, RunValue) /\ RunStop < Len(bytes)
DoubleSign == RunStart = 1 /\ Len(bytes) >= 2 /\ bytes[2] \in {PLUS, MINUS}

C5_TrailingByte ==
    Done =>
        /\ (ValidPrefix /\ surface = "leading") =>
               result = Ok(RunValue, RunStop) /\ result.pos > 0
        /\ (ValidPrefix /\ surface = "strict") => result = Err("InvalidDigit", RunStop)
        /\ (DoubleSign /\ surface = "strict") => result = Err("InvalidDigit", 1)

C5_Witness ==
    /\ Done /\ ty = I8 /\ radix = 10 /\ surface = "strict"
    /\ bytes = <<MINUS, 49, 50, 56, MINUS>>
    /\ result = Err("InvalidDigit", 4)

(***************************************************************************)
(* C6.  The returned position never exceeds the input length.  A success   *)
(* is returned at position 0 exactly by the leading surface on a           *)
(* non-empty input whose first byte is neither a sign the parser consumes  *)
(* nor a digit of the radix, and its value is then 0; every other success  *)
(* has consumed at least one byte.                                         *)
(***************************************************************************)
NothingToRead == Len(bytes) >= 1 /\ RunStart = 0 /\ ~IsDigitOf(bytes[1], radix)

C6_Position ==
    Done =>
        /\ result.pos <= Len(bytes)
        /\ (result.ok /\ result.pos = 0) <=> (surface = "leading" /\ NothingToRead)
        /\ (result.ok /\ result.pos = 0) => result.value = 0

C6_Witness ==
    /\ Done /\ ty = I8 /\ surface = "leading"
    /\ bytes = <<LOWER_A, 49>> /\ radix = 10
    /\ result = Ok(0, 0)

\* The claim as stated: every success has consumed at least one byte.
C6_Original ==
    Done => (result.pos <= Len(bytes) /\ (result.ok => result.pos > 0))

(***************************************************************************)
(* C7.  On an input whose first byte after an optional sign is a digit of  *)
(* the radix, the leading surface returns the digits consumed so far, and  *)
(* fails only when their value leaves the range of T, with Overflow or     *)
(* Underflow.                                                              *)
(***************************************************************************)
C7_LeadingMidNumber ==
    (Done /\ surface = "leading" /\ HasDigits) =>
        /\ result.ok <=> InRange(ty, RunValue)
        /\ result.ok => result = Ok(RunValue, RunStop)
        /\ ~result.ok => result.code = RangeCode

C7_Witness ==
    /\ Done /\ ty = U8 /\ radix = 10 /\ surface = "leading"
    /\ bytes = <<50, 53, 54, SPACE>>
    /\ result = Err("Overflow", 2)

\* The claim as stated: the leading surface never fails mid-number.
C7_Original ==
    (Done /\ surface = "leading" /\ HasDigits) => result.ok

(***************************************************************************)
(* C8.  For every radix 2..36 and every byte 0..255 the digit decoder      *)
(* accepts exactly '0'..'9' as 0..9 and 'A'..'Z' / 'a'..'z' as 10..35,     *)
(* restricted to values below the radix, and rejects every other byte.     *)
(***************************************************************************)
Min(a, b) == IF a < b THEN a ELSE b
Max(a, b) == IF a > b THEN a ELSE b

\* The accepted bytes of a radix, as ranges of characters.
Accepted(r) ==
    (ZERO_CH..(ZERO_CH + Min(r, 10) - 1))
        \cup (UPPER_A..(UPPER_A + Max(r - 10, 0) - 1))
        \cup (LOWER_A..(LOWER_A + Max(r - 10, 0) - 1))

DoneDigit == op = "digit" /\ pc = "done"

C8_DigitDecoding ==
    DoneDigit =>
        /\ surface = "to_digit" =>
               result = (IF bytes[1] \in Accepted(radix)
                         THEN Ok(DigitValue(bytes[1]), 0)
                         ELSE Err("NotADigit", 0))
        /\ surface = "is_not_digit_char" =>
               result = Ok(bytes[1] \notin Accepted(radix), 0)

C8_Witness ==
    /\ DoneDigit /\ surface = "to_digit" /\ radix = MAX_RADIX
    /\ bytes = <<UPPER_Z>>
    /\ result = Ok(35, 0)

(***************************************************************************)
(* What an exponent section denotes.  Its digits may exceed 32 bits, so    *)
(* they are compared as digit strings with the digits of i32::MAX.         *)
(***************************************************************************)
ExpStart == IF Len(bytes) >= 1 /\ bytes[1] \in {PLUS, MINUS} THEN 1 ELSE 0
ExpNegative == Len(bytes) >= 1 /\ bytes[1] = MINUS
ExpStop == RunEnd(bytes, radix, ExpStart)
ExpHasDigits == ExpStop > ExpStart

\* The digit values of s[a..b], leading zeros dropped.
RECURSIVE Significant(_, _, _)
Significant(s, a, b) ==
    IF a > b THEN <<>>
    ELSE IF DigitValue(s[a]) = 0 THEN Significant(s, a + 1, b)
    ELSE [k \in 1..(b - a + 1) |-> DigitValue(s[a + k - 1])]

\* x > y for digit strings without leading zeros.
Greater(x, y) ==
    \/ Len(x) > Len(y)
    \/ /\ Len(x) = Len(y)
       /\ \E k \in 1..Len(x) : x[k] > y[k] /\ \A j \in 1..(k - 1) : x[j] = y[j]

\* y + 1 for a digit string in radix r.
RECURSIVE Inc(_, _)
Inc(y, r) ==
    IF Len(y) = 0 THEN <<1>>
    ELSE IF y[Len(y)] < r - 1 THEN [y EXCEPT ![Len(y)] = y[Len(y)] + 1]
    ELSE Append(Inc(SubSeq(y, 1, Len(y) - 1), r), 0)

LimitDigits(r) == Significant(Format(I32_MAX, r, FALSE), 1, Len(Format(I32_MAX, r, FALSE)))

\* The exponent digits denote a value outside the 32-bit signed range.
ExpOverflows ==
    LET x == Significant(bytes, ExpStart + 1, ExpStop)
    IN  IF ExpNegative THEN Greater(x, Inc(LimitDigits(radix), radix))
        ELSE Greater(x, LimitDigits(radix))

DoneExponent == op = "exponent" /\ pc = "done"

(***************************************************************************)
(* C9.  When the exponent digits overflow a signed 32-bit integer the      *)
(* exponent parser does not fail: it returns i32::MAX for a positive and   *)
(* -i32::MAX for a negative exponent, and the position is just past the    *)
(* last consecutive exponent digit.                                        *)
(***************************************************************************)
C9_Saturation ==
    (DoneExponent /\ ExpHasDigits /\ ExpOverflows) =>
        result = Ok(IF ExpNegative THEN -I32_MAX ELSE I32_MAX, ExpStop)

\* What standalone_exponent returns instead: its default for a negative
\* exponent is i32::min_value().
SaturationAsCoded ==
    (DoneExponent /\ ExpHasDigits /\ ExpOverflows) =>
        result = Ok(IF ExpNegative THEN I32_MIN ELSE I32_MAX, ExpStop)

(***************************************************************************)
(* C10.  The exponent parser fails with EmptyExponent on an empty section  *)
(* (position 0) and on a lone sign (position 1), and these are its only    *)
(* failures.  When a byte that is not a digit directly follows the         *)
(* optional sign it returns exponent 0 at that byte's position; every      *)
(* other success has consumed at least one exponent digit.                 *)
(***************************************************************************)
C10_EmptyExponent ==
    DoneExponent =>
        /\ ~result.ok <=> Len(bytes) = ExpStart
        /\ ~result.ok => result = Err("EmptyExponent", ExpStart)
        /\ (~ExpHasDigits /\ Len(bytes) > ExpStart) => result = Ok(0, ExpStart)
        /\ (result.ok /\ ExpHasDigits) => result.pos = ExpStop /\ result.pos > ExpStart

C10_Witness ==
    /\ DoneExponent
    /\ bytes = <<MINUS, SPACE>>
    /\ result = Ok(0, 1)

\* The claim as stated: no digit in the section means EmptyExponent, and a
\* success has consumed a digit.
C10_Original ==
    DoneExponent =>
        /\ ~ExpHasDigits => result = Err("EmptyExponent", ExpStart)
        /\ result.ok => ExpHasDigits

(***************************************************************************)
(* C11.  The exponent marker is 'e' or 'E' for a radix below 15 and '^'    *)
(* from radix 15 on.  The digits after the marker are read in the radix    *)
(* of the mantissa ("^20" in radix 15 is 30) up to the first byte that is  *)
(* not a digit.  Without a marker the exponent is 0 and no byte is         *)
(* consumed.                                                               *)
(***************************************************************************)
HasMarker ==
    /\ Len(bytes) >= 1
    /\ IF radix < 15 THEN bytes[1] \in {101, 69} ELSE bytes[1] = 94

\* The exponent section after the marker: sign, digit run, and its value,
\* accumulated downwards for a negative exponent.
SectionStart == IF Len(bytes) >= 2 /\ bytes[2] \in {PLUS, MINUS} THEN 2 ELSE 1
SectionNegative == Len(bytes) >= 2 /\ bytes[2] = MINUS
SectionStop == RunEnd(bytes, radix, SectionStart)
SectionHasDigits == SectionStop > SectionStart

RECURSIVE NegValueOf(_, _, _, _)
NegValueOf(s, a, b, r) ==
    IF b < a THEN 0 ELSE r * NegValueOf(s, a, b - 1, r) - DigitValue(s[b])

SectionOverflows ==
    LET x == Significant(bytes, SectionStart + 1, SectionStop)
    IN  IF SectionNegative THEN Greater(x, Inc(LimitDigits(radix), radix))
        ELSE Greater(x, LimitDigits(radix))

SectionValue ==
    IF SectionNegative THEN NegValueOf(bytes, SectionStart + 1, SectionStop, radix)
    ELSE ValueOf(bytes, SectionStart + 1, SectionStop, radix)

DoneParseExponent == op = "parse_exponent" /\ pc = "done"

C11_Marker ==
    DoneParseExponent =>
        /\ ~HasMarker => result = Ok(0, 0)
        /\ (HasMarker /\ SectionHasDigits /\ ~SectionOverflows) =>
               result = Ok(SectionValue, SectionStop)

C11_Witness ==
    /\ DoneParseExponent /\ radix = 15
    /\ bytes = <<94, 45, 50, 48, 32>>
    /\ result = Ok(-30, 4)

(***************************************************************************)
(* What a mantissa input denotes: its digits as values, the dot left out,  *)
(* their value in positional notation, and how many of them fit into M.    *)
(***************************************************************************)
DigitsOf(s) == [i \in 1..Len(SelectSeq(s, LAMBDA b : b # 46)) |->
                   DigitValue(SelectSeq(s, LAMBDA b : b # 46)[i])]

\* The value of the digits ds[a..b], fewer than ChunkDigits[r] + 1 of them.
RECURSIVE ChunkValue(_, _, _, _)
ChunkValue(ds, a, b, r) ==
    IF b < a THEN 0 ELSE ChunkValue(ds, a, b - 1, r) * r + ds[b]

\* The value of the first n digits of ds in radix r, a chunk at a time.
RECURSIVE BigValueOf(_, _, _)
BigValueOf(ds, n, r) ==
    LET c == IF n < ChunkDigits[r] THEN n ELSE ChunkDigits[r]
    IN  IF n = 0 THEN <<>>
        ELSE BigMulAdd(BigValueOf(ds, n - c, r), r^c, ChunkValue(ds, n - c + 1, n, r))

\* The number of zero digits ds starts with, counted from position k + 1.
RECURSIVE LeadingZeros(_, _)
LeadingZeros(ds, k) ==
    IF k < Len(ds) /\ ds[k + 1] = 0 THEN LeadingZeros(ds, k + 1) ELSE k

\* floor(log_r(2^bits)): 2^bits has one digit more than that in radix r.
FloorLog(bits, r) == Len(OverText[bits][r]) - 1

\* The length of the longest prefix of ds whose value fits into ty.  Leading
\* zeros always fit, so do FloorLog significant digits after them, and
\* FloorLog + 2 significant digits never do: the one prefix to weigh is the
\* one with FloorLog + 1 significant digits.
FitCountFor(bits, ds) ==
    LET most == LeadingZeros(ds, 0) + FloorLog(bits, radix) + 1
        top == IF Len(ds) < most THEN Len(ds) ELSE most
    IN  IF BigCmp(BigValueOf(ds, top, radix), MantissaMax[bits]) <= 0
        THEN top ELSE top - 1

FitCount(ds) == FitCountFor(ty.bits, ds)

DoneMantissa == op = "mantissa" /\ pc = "done"
ParsedMantissa == DoneMantissa /\ surface = "parse_mantissa"
StandaloneParsed == DoneMantissa /\ surface = "standalone_mantissa"

\* The digits parse_mantissa consumed, and all digits of the two slices of
\* standalone_mantissa.
Consumed == DigitsOf(SubSeq(bytes, 1, result.pos))
Sliced == DigitsOf(bytes)

(***************************************************************************)
(* C12.  Mantissa exactness: without truncation the mantissa is the exact  *)
(* value of all consumed digits, the dot left out; with truncation it is   *)
(* the exact value of the digits before the first digit that did not fit.  *)
(***************************************************************************)
ExactFor(ds, mantissa, truncated) ==
    IF truncated
    THEN FitCount(ds) < Len(ds) /\ mantissa = BigValueOf(ds, FitCount(ds), radix)
    ELSE mantissa = BigValueOf(ds, Len(ds), radix)

C12_Exactness ==
    /\ ParsedMantissa => ExactFor(Consumed, result.mantissa, result.truncated)
    /\ StandaloneParsed => ExactFor(Sliced, result.mantissa, result.truncated # 0)

C12_Witness ==
    /\ ParsedMantissa /\ ty = U64 /\ radix = 10
    /\ bytes = <<49>> \o Rep(48, 20)
    /\ result = [mantissa |-> <<0, 0, 0, 0, 0, 0, 10>>, dot_shift |-> -1,
                 pos |-> 21, truncated |-> TRUE]

(***************************************************************************)
(* C13.  Mantissa capacity.  As stated: the mantissa holds at most         *)
(* floor(log_radix(2^width)) significant digits, and truncation is raised  *)
(* once the input has more.  As coded: digits accumulate for as long as    *)
(* the value fits into the width, which is one digit more whenever the     *)
(* leading digits are small enough; truncation is raised at the first      *)
(* digit that does not fit and nothing is accumulated after it.            *)
(***************************************************************************)
\* The number of significant radix-r digits the mantissa word x holds.
Held(x, r) == IF x = <<>> THEN 0 ELSE Len(BigFormat(x, r))

\* The number of digits of ds after its leading zeros.
SigCount(ds) == Len(ds) - LeadingZeros(ds, 0)

CapacityFor(ds, mantissa, truncated) ==
    LET floor == FloorLog(ty.bits, radix)
    IN  /\ Held(mantissa, radix) <= floor + 1
        /\ SigCount(ds) <= floor => ~truncated /\ Held(mantissa, radix) = SigCount(ds)
        /\ truncated <=> FitCount(ds) < Len(ds)
        /\ truncated => Held(mantissa, radix) = FitCount(ds) - LeadingZeros(ds, 0)

StatedCapacityFor(ds, mantissa, truncated) ==
    LET floor == FloorLog(ty.bits, radix)
    IN  /\ Held(mantissa, radix) <= floor
        /\ SigCount(ds) > floor => truncated

C13_Capacity ==
    /\ ParsedMantissa => CapacityFor(Consumed, result.mantissa, result.truncated)
    /\ StandaloneParsed => CapacityFor(Sliced, result.mantissa, result.truncated # 0)

C13_Original ==
    /\ ParsedMantissa => StatedCapacityFor(Consumed, result.mantissa, result.truncated)
    /\ StandaloneParsed => StatedCapacityFor(Sliced, result.mantissa, result.truncated # 0)

\* u64, radix 10: the twenty digits of 2^64 - 1 are all held.
C13_Witness ==
    /\ ParsedMantissa /\ ty = U64 /\ radix = 10
    /\ bytes = MaxText[64][10] /\ Len(bytes) = 20
    /\ result.mantissa = MantissaMax[64] /\ ~result.truncated
    /\ Held(result.mantissa, radix) = FloorLog(64, 10) + 1

(***************************************************************************)
(* C14.  Dot shift: with no integer digit truncated it is the number of    *)
(* fractional bytes consumed minus the number of fractional digits         *)
(* truncated; otherwise it is minus the number of truncated integer        *)
(* digits and, if a dot follows, the end position is just past the last    *)
(* consecutive fractional digit and truncated is true.                     *)
(***************************************************************************)
IntegerEnd == RunEnd(bytes, radix, 0)
HasDot == IntegerEnd < Len(bytes) /\ bytes[IntegerEnd + 1] = 46
FractionEnd == IF HasDot THEN RunEnd(bytes, radix, IntegerEnd + 1) ELSE IntegerEnd
FractionBytes == IF HasDot THEN FractionEnd - (IntegerEnd + 1) ELSE 0

IntegerDigits == DigitsOf(SubSeq(bytes, 1, IntegerEnd))
NumberDigits == DigitsOf(SubSeq(bytes, 1, FractionEnd))
IntegerTruncated == Len(IntegerDigits) - FitCount(IntegerDigits)
FractionTruncated == Len(NumberDigits) - FitCount(NumberDigits)

C14_DotShift ==
    ParsedMantissa =>
        IF IntegerTruncated = 0
        THEN result.dot_shift = FractionBytes - FractionTruncated
        ELSE /\ result.dot_shift = -IntegerTruncated
             /\ HasDot => result.pos = FractionEnd /\ result.truncated

\* u64, radix 10, "100000000000000000000.9": one integer digit truncated.
C14_Witness ==
    /\ ParsedMantissa /\ ty = U64 /\ radix = 10
    /\ bytes = <<49>> \o Rep(48, 20) \o <<46, 57>>
    /\ IntegerTruncated = 1 /\ HasDot
    /\ result.dot_shift = -1 /\ result.pos = 23 /\ result.truncated

(***************************************************************************)
(* C15.  The exact value of the consumed digits is                         *)
(* mantissa * radix^(-dot_shift) when nothing was truncated, and differs   *)
(* from it by at most radix^(-dot_shift) / 2 when digits were truncated.   *)
(* Both sides are scaled by radix^(fractional digits), which makes them    *)
(* the integers V (the digits, the dot left out) and mantissa * radix^T,   *)
(* T the number of truncated digits.                                       *)
(***************************************************************************)
\* x * r^n.
RECURSIVE BigScale(_, _, _)
BigScale(x, r, n) == IF n = 0 THEN x ELSE BigScale(BigMulAdd(x, r, 0), r, n - 1)

Twice(x) == BigMulAdd(x, 2, 0)

HalfUlpFor(ds, mantissa, dropped, truncated) ==
    /\ dropped >= 0
    /\ LET exact == BigValueOf(ds, Len(ds), radix)
           approx == BigScale(mantissa, radix, dropped)
           unit == BigScale(<<1>>, radix, dropped)
       IN  IF truncated
           THEN /\ BigCmp(Twice(exact), BigAdd(Twice(approx), unit)) <= 0
                /\ BigCmp(Twice(approx), BigAdd(Twice(exact), unit)) <= 0
           ELSE exact = approx

C15_HalfUlp ==
    /\ ParsedMantissa =>
           HalfUlpFor(NumberDigits, result.mantissa,
                      FractionBytes - result.dot_shift, result.truncated)
    /\ StandaloneParsed =>
           HalfUlpFor(Sliced, result.mantissa, result.truncated, result.truncated # 0)

\* What the code does keep: the error of a truncated mantissa is less than
\* one whole unit, radix^(-dot_shift), and the mantissa is never too large.
WithinUnitFor(ds, mantissa, dropped, truncated) ==
    /\ dropped >= 0
    /\ LET exact == BigValueOf(ds, Len(ds), radix)
           approx == BigScale(mantissa, radix, dropped)
           unit == BigScale(<<1>>, radix, dropped)
       IN  IF truncated
           THEN /\ BigCmp(approx, exact) <= 0
                /\ BigCmp(exact, BigAdd(approx, unit)) < 0
           ELSE exact = approx

TruncationWithinUnit ==
    /\ ParsedMantissa =>
           WithinUnitFor(NumberDigits, result.mantissa,
                         FractionBytes - result.dot_shift, result.truncated)
    /\ StandaloneParsed =>
           WithinUnitFor(Sliced, result.mantissa, result.truncated, result.truncated # 0)

(***************************************************************************)
(* C16.  Leading zeros take no mantissa capacity and cause no truncation:  *)
(* "0." followed by k zeros and the digits D parses to the mantissa and    *)
(* the truncation flag of D alone, and the zeros count in the end          *)
(* position.  As stated the dot shift is k + len(D); as coded the digits   *)
(* of D that were truncated are subtracted from it.                        *)
(***************************************************************************)
ZeroPadded == DoneMantissa /\ surface = "zero_padded"

SameMantissa ==
    /\ result.padded.mantissa = result.plain.mantissa
    /\ result.padded.truncated = result.plain.truncated
    /\ result.padded.pos = 2 + result.k + Len(bytes)

C16_LeadingZeros ==
    ZeroPadded =>
        /\ SameMantissa
        /\ result.padded.dot_shift =
               result.k + Len(bytes) - (Len(bytes) - FitCount(DigitsOf(bytes)))

C16_Original ==
    ZeroPadded =>
        /\ SameMantissa
        /\ result.padded.dot_shift = result.k + Len(bytes)

\* u64, radix 10, "0.00184467440737095516159": the last digit of D is
\* truncated, as it is for D alone.
C16_Witness ==
    /\ ZeroPadded /\ ty = U64 /\ radix = 10 /\ result.k = 2
    /\ bytes = MaxText[64][10] \o <<57>>
    /\ result.plain.mantissa = MantissaMax[64] /\ result.plain.truncated
    /\ result.padded = [mantissa |-> MantissaMax[64], dot_shift |-> 22,
                        pos |-> 25, truncated |-> TRUE]

(***************************************************************************)
(* What a float input denotes: the mantissa up to FractionEnd, then the    *)
(* exponent section, a marker, an optional sign and digits in the radix.   *)
(***************************************************************************)
FloatSection == SubSeq(bytes, FractionEnd + 1, Len(bytes))
FloatHasMarker ==
    /\ Len(FloatSection) >= 1
    /\ IF radix < 15 THEN FloatSection[1] \in {101, 69} ELSE FloatSection[1] = 94
FloatExpStart ==
    IF Len(FloatSection) >= 2 /\ FloatSection[2] \in {PLUS, MINUS} THEN 2 ELSE 1
FloatExpNegative == Len(FloatSection) >= 2 /\ FloatSection[2] = MINUS
FloatExpStop == RunEnd(FloatSection, radix, FloatExpStart)
FloatExpDigits == Significant(FloatSection, FloatExpStart + 1, FloatExpStop)

\* The exponent digits reach i32::MAX in magnitude: the parsed exponent is
\* at, or saturated to, an extreme of the 32-bit range.
FloatExpSaturated ==
    /\ FloatHasMarker
    /\ ~Greater(LimitDigits(radix), FloatExpDigits)

\* The exponent the section denotes, when it is not saturated.
WrittenExponent ==
    IF ~FloatHasMarker THEN 0
    ELSE IF FloatExpNegative
    THEN NegValueOf(FloatSection, FloatExpStart + 1, FloatExpStop, radix)
    ELSE ValueOf(FloatSection, FloatExpStart + 1, FloatExpStop, radix)

\* The digits after the dot that the mantissa holds; negative when integer
\* digits were truncated.
WrittenDotShift ==
    IF IntegerTruncated = 0 THEN FractionBytes - FractionTruncated
    ELSE -IntegerTruncated

FloatNormalized == op = "float" /\ pc \in {"normalized", "done"}
FloatDone == op = "float" /\ pc = "done"

NormalizeStep == op = "float" /\ pc = "normalized" /\ result.mantissa # <<>>

Reduced ==
    /\ pc' = "done"
    /\ result'.exponent >= result.effective
    /\ BigScale(result'.mantissa, radix, result'.exponent - result.effective)
           = result.mantissa
    /\ BigDivMod(result'.mantissa, radix).r # 0

C18_NormalizeMantissa == [][NormalizeStep => Reduced]_vars

\* What the code does keep: the same for every exponent that leaves room
\* for the factors moved into it.
C18_BelowOverflow ==
    [][(NormalizeStep /\ result.effective <= I32_MAX - (MaxFloatZeros + 2)) => Reduced]_vars

(***************************************************************************)
(* C19.  An out-of-range exponent never becomes a wrong finite value or    *)
(* the wrong extreme: for every 32-bit exponent the extended path returns  *)
(* zero when exponent + bias is below 0 and infinity when                  *)
(* (exponent + bias) / step is at or past the end of the large powers,     *)
(* both accurate and without a multiplication; a positive out-of-range     *)
(* exponent never gives zero.                                              *)
(***************************************************************************)
ExtendedCalled == op = "extended" /\ pc # "ready"

BelowTable == result.exponent < -result.powers.bias
PastTable == result.exponent >= TableEnd(result.powers)

C19_OutOfRange ==
    ExtendedCalled =>
        /\ BelowTable =>
              pc = "done" /\ result.out = "zero" /\ result.valid /\ ~result.multiplied
        /\ PastTable =>
              pc = "done" /\ result.out = "infinity" /\ result.valid /\ ~result.multiplied
        /\ (PastTable /\ result.exponent > 0) => pc = "done" /\ result.out # "zero"

\* What the code does keep: the same for every exponent that can take the
\* bias without leaving the i32 range.
C19_BelowOverflow ==
    (ExtendedCalled /\ result.exponent <= I32_MAX - result.powers.bias) => C19_OutOfRange

(***************************************************************************)
(* What a float input denotes at the extremes.  Its value is V * r^E, V    *)
(* the digits of the mantissa as an integer and E the written exponent     *)
(* minus the number of fractional digits.  With V >= 1 and E above the     *)
(* largest binary exponent of F the value is past every finite float;      *)
(* with V < r^n for n digits and n + E two below the binary exponent of    *)
(* the smallest denormal it is less than half of that denormal.            *)
(***************************************************************************)
DenotesNonZero == \E k \in 1..Len(NumberDigits) : NumberDigits[k] # 0

DenotedExponent == WrittenExponent - FractionBytes

DenotesOverflow(F) ==
    /\ DenotesNonZero
    /\ FloatHasMarker /\ ~FloatExpNegative /\ FloatExpStop > FloatExpStart
    /\ FloatExpSaturated \/ DenotedExponent > F.max_pow2

DenotesUnderflow(F) ==
    /\ FloatHasMarker /\ FloatExpNegative /\ FloatExpStop > FloatExpStart
    /\ FloatExpSaturated \/ Len(NumberDigits) + DenotedExponent < F.min_pow2 - 1

DriverCalled == op = "float" /\ surface \in {"atof", "atod"} /\ pc \in {"returned", "panic"}

(***************************************************************************)
(* C20.  atof and atod return the float nearest to the exact value of the  *)
(* string, ties to even.  Checked where the nearest float is known         *)
(* without the float's arithmetic: a value past every finite float gives   *)
(* infinity, a value below half the smallest denormal and a mantissa of    *)
(* zeros give zero, and the driver returns.                                *)
(***************************************************************************)
NearestExtreme ==
    /\ pc = "returned"
    /\ DenotesOverflow(DriverFloat[surface]) => result.out = "infinity"
    /\ DenotesUnderflow(DriverFloat[surface]) => result.out = "zero"
    /\ ~DenotesNonZero => result.out = "zero"

C20_CorrectRounding == DriverCalled => NearestExtreme

\* What the drivers do keep: the same for every input whose exponent has
\* fewer digits than i32::MAX.
C20_BelowOverflow ==
    (DriverCalled /\ Len(FloatExpDigits) < Len(LimitDigits(radix))) => NearestExtreme

(***************************************************************************)
(* C21.  The float driver tries its paths in a fixed order and commits at  *)
(* the first that succeeds: a mantissa of zeros returns zero with nothing  *)
(* tried; a power-of-two radix returns from the pow2 branch, or from        *)
(* Bigfloat when truncated and halfway, and never tries the extended path; *)
(* any other radix tries the exact path only when not truncated, then the  *)
(* 80-bit extended path, and only after that one reported inaccurate the   *)
(* 128-bit extended path (lossy, returned whatever it reports) or Bigfloat *)
(* (not lossy).                                                            *)
(***************************************************************************)
DriverReturned == op = "float" /\ surface \in Drivers /\ pc = "returned"

Pow2Radices == {2, 4, 8, 16, 32}
\* More digits than the u64 of the first parse holds.
DenotesTruncated == FitCountFor(64, NumberDigits) < Len(NumberDigits)

\* The paths of a radix that is no power of two, in their order.
PathOrder ==
    <<"exact", "extended", IF surface \in Lossy THEN "extended128" ELSE "bigfloat">>

RECURSIVE LimbValue(_)
LimbValue(x) == IF x = <<>> THEN <<>> ELSE BigMulAdd(LimbValue(Tail(x)), LimbBase, x[1])

\* The product of two integers.
RECURSIVE BigMul(_, _)
BigMul(x, y) ==
    IF x = <<>> \/ y = <<>> THEN <<>>
    ELSE LET rest == BigMulAdd(BigMul(x, Tail(y)), LIMB, 0)
         IN  IF y[1] = 0 THEN rest ELSE BigAdd(BigMulAdd(x, y[1], 0), rest)

TwosIn(base) == CHOOSE k \in 0..5 : base = OddPart(base) * 2^k

BigfloatCalledAs(name) == op = "bigfloat" /\ pc = "called" /\ result.call.name = name

C22_BigfloatFactors ==
    LET before == LimbValue(result.was.data)
        after == LimbValue(result.data)
        call == result.call
    IN  /\ BigfloatCalledAs("pow") =>
              /\ after = BigMul(before, BigPow(OddPart(call.base), call.n))
              /\ result.exp = result.was.exp + call.n * TwosIn(call.base)
        /\ BigfloatCalledAs("shl_bits") =>
              /\ after = BigMul(before, BigPow(2, call.n))
              /\ result.exp = result.was.exp
        /\ BigfloatCalledAs("mul_assign") =>
              /\ after = BigMul(before, LimbValue(call.y.data))
              /\ result.exp = result.was.exp + call.y.exp

C22_Witness ==
    /\ BigfloatCalledAs("pow") /\ result.call.base = 10 /\ result.call.n = 10
    /\ result.was = [data |-> from_u32(1), exp |-> 0]
    /\ LimbValue(result.data) = BigFromInt(9765625) /\ result.exp = 10

(***************************************************************************)
(* The error bound over unbounded integers.                                *)
(***************************************************************************)
U64Value(x) ==
    BigMulAdd(BigMulAdd(BigMulAdd(BigFromInt(x[4]), WORD, x[3]), WORD, x[2]), WORD, x[1])

Pow2Big(n) == BigMulAdd(BigPow(WORD, n \div 16), 2^(n % 16), 0)

\* v mod 2^n, fifteen bits at a time.
RECURSIVE ModPow2(_, _)
ModPow2(v, n) ==
    IF n <= 15 THEN BigFromInt(BigDivMod(v, 2^n).r)
    ELSE LET dm == BigDivMod(v, 2^15)
         IN  BigAdd(BigFromInt(dm.r), BigMul(ModPow2(dm.q, n - 15), BigFromInt(2^15)))

AccuracyDone == op = "accuracy" /\ pc = "done"
Counted == op = "accuracy" /\ pc \in {"counted", "done"}

ExtraBitsNow == extrabits_of(DriverFloat[surface], result.fp.exp)
ExtraNow == ModPow2(U64Value(result.fp.frac), ExtraBitsNow)
HalfwayNow == Pow2Big(ExtraBitsNow - 1)
ErrorsNow == BigFromInt(result.errors)

\* halfway - errors < extra < halfway + errors
InOpenInterval ==
    /\ BigCmp(HalfwayNow, BigAdd(ExtraNow, ErrorsNow)) < 0
    /\ BigCmp(ExtraNow, BigAdd(HalfwayNow, ErrorsNow)) < 0

\* halfway - errors <= extra <= halfway + errors
InClosedInterval ==
    /\ BigCmp(HalfwayNow, BigAdd(ExtraNow, ErrorsNow)) <= 0
    /\ BigCmp(ExtraNow, BigAdd(HalfwayNow, ErrorsNow)) <= 0

(***************************************************************************)
(* C23.  With fewer than 64 extra bits the 80-bit representation is        *)
(* declared accurate if and only if the extra bits do not lie strictly     *)
(* between halfway - errors and halfway + errors; extra = halfway - errors *)
(* and extra = halfway + errors are declared accurate.                     *)
(***************************************************************************)
C23_OpenInterval ==
    (AccuracyDone /\ ExtraBitsNow <= 63) => (result.valid <=> ~InOpenInterval)

\* As stated: accurate if and only if the extra bits are outside the closed
\* interval [halfway - errors, halfway + errors].
C23_ClosedInterval ==
    (AccuracyDone /\ ExtraBitsNow <= 64) => (result.valid <=> ~InClosedInterval)

C23_Witness ==
    /\ AccuracyDone /\ ExtraBitsNow = 11 /\ result.valid
    /\ BigAdd(ExtraNow, ErrorsNow) = HalfwayNow

(***************************************************************************)
(* C24.  The signed 64-bit comparisons with wrapping arithmetic give the   *)
(* same answer as halfway - errors < extra < halfway + errors over         *)
(* unbounded integers, for every number of extra bits up to 64, every frac *)
(* and every error count.                                                  *)
(***************************************************************************)
C24_SignedComparisons ==
    (AccuracyDone /\ ExtraBitsNow \in 1..64) =>
        LET mask == lower_n_mask(ExtraBitsNow)
            halfway == lower_n_halfway(ExtraBitsNow)
            extra == u64_and(result.fp.frac, mask)
            errors == u64_of(result.errors)
        IN  (/\ i64_less(u64_wrapping_sub(halfway, errors), extra)
             /\ i64_less(extra, u64_wrapping_add(halfway, errors))) <=> InOpenInterval

(***************************************************************************)
(* C25.  The error counter of the 80-bit extended path: a truncated        *)
(* mantissa starts it at 4, the full small multiplication adds 4, the      *)
(* large multiplication adds 4 and one more when the counter was not zero; *)
(* for an untruncated mantissa it is 4 (integer small multiplication) or 9 *)
(* (full small multiplication) before the last normalisation, which        *)
(* multiplies it by 2^shift.                                               *)
(***************************************************************************)
C25_ErrorCounter ==
    Counted =>
        /\ result.unshifted =
              CASE ~result.truncated /\ ~result.full_small -> 4
                [] ~result.truncated /\ result.full_small -> 9
                [] result.truncated /\ ~result.full_small -> 9
                [] result.truncated /\ result.full_small -> 13
        /\ result.errors = result.unshifted * 2^result.shift

\* As stated: the large multiplication adds 4, and another 4 exactly when
\* the small multiplication was the full one: 4 or 12 when untruncated.
C25_HalfScales ==
    (Counted /\ ~result.truncated) =>
        /\ result.unshifted = IF result.full_small THEN 12 ELSE 4
        /\ result.errors = result.unshifted * 2^result.shift

C25_Witness ==
    /\ Counted /\ ~result.truncated /\ result.full_small /\ result.shift = 1
    /\ result.unshifted = 9 /\ result.errors = 18

(***************************************************************************)
(* C26.  For a power-of-two radix with p = log2(radix), pow2_to_exact      *)
(* takes exactly one branch for every exponent: infinity iff the exponent  *)
(* is above max_exp; zero iff it is below min_exp - floor(65 / p); one     *)
(* multiplication by 2^(p * exponent) iff it is within [min_exp, max_exp]; *)
(* two multiplications, by 2^(p * (exponent - min_exp)) and then by        *)
(* 2^(p * min_exp), whose shifts sum to p * exponent, iff it is in         *)
(* [min_exp - floor(65 / p), min_exp).                                     *)
(***************************************************************************)
Pow2Done == op = "exact" /\ pc = "done" /\ radix \in Pow2Radices

Log2(r) == CHOOSE p \in 1..5 : 2^p = r

\* floor(a / b) for b > 0
Floor(a, b) == CHOOSE q \in 0..a : q * b <= a /\ a < (q + 1) * b

C26_Pow2Partition ==
    Pow2Done =>
        LET p == Log2(radix)
            lim == exponent_limit(DriverFloat[surface], radix)
            e == result.exponent
            low == lim.min_exp - Floor(65, p)
        IN  /\ (result.out = "infinity" /\ result.shifts = <<>>) <=> e > lim.max_exp
            /\ (result.out = "zero" /\ result.shifts = <<>>) <=> e < low
            /\ (result.out = "finite" /\ result.shifts = <<p * e>>)
                  <=> (lim.min_exp <= e /\ e <= lim.max_exp)
            /\ (result.out = "finite" /\ Len(result.shifts) = 2) <=> (low <= e /\ e < lim.min_exp)
            /\ Len(result.shifts) = 2 =>
                  /\ result.shifts = <<p * (e - lim.min_exp), p * lim.min_exp>>
                  /\ result.shifts[1] + result.shifts[2] = p * e

C26_Witness ==
    /\ Pow2Done /\ radix = 8 /\ surface = "atod"
    /\ result.exponent = exponent_limit(F64, 8).min_exp - 21
    /\ Len(result.shifts) = 2

(***************************************************************************)
(* C28.  For a radix that is no power of two, to_exact reports the exact   *)
(* path available if and only if mantissa >> MANTISSA_SIZE is zero and the *)
(* exponent lies in exponent_limit(radix) = [min_exp, max_exp]; in every   *)
(* other case it reports unavailable with the value zero.                  *)
(***************************************************************************)
ExactDone == op = "exact" /\ pc = "done" /\ radix \notin Pow2Radices

MantissaFits(F) == BigCmp(result.mantissa, big_pow2(F.mantissa_size)) < 0

C28_ExactAvailable ==
    ExactDone =>
        LET F == DriverFloat[surface]
            lim == exponent_limit(F, radix)
        IN  /\ result.valid <=> (/\ MantissaFits(F)
                                 /\ lim.min_exp <= result.exponent
                                 /\ result.exponent <= lim.max_exp)
            /\ ~result.valid => result.out = "zero"

C28_Witness ==
    /\ ExactDone /\ radix = 10 /\ surface = "atod" /\ result.valid
    /\ result.exponent = 22
    /\ result.mantissa = BigPred(big_pow2(52))

(***************************************************************************)
(* C27.  is_halfway::<F>(m) holds exactly when the bits of m from its      *)
(* highest set bit to its lowest set bit are MANTISSA_SIZE + 2 bits (25    *)
(* for f32, 54 for f64); hence doubling m without overflow does not change *)
(* it, it is false for m = 0, and it is never true for f32 and f64 on the  *)
(* same m.                                                                 *)
(***************************************************************************)
HalfwayDone == op = "halfway" /\ pc = "done"

HighestBit(m) ==
    CHOOSE h \in 0..63 : BigCmp(big_pow2(h), m) <= 0 /\ BigCmp(m, big_pow2(h + 1)) < 0
LowestBit(m) == CHOOSE l \in 0..63 : ModPow2(m, l + 1) = big_pow2(l)
SpanOf(m) == HighestBit(m) - LowestBit(m) + 1

C27_Halfway ==
    HalfwayDone =>
        /\ result.f32 <=> (result.mantissa # <<>> /\ SpanOf(result.mantissa) = 23 + 2)
        /\ result.f64 <=> (result.mantissa # <<>> /\ SpanOf(result.mantissa) = 52 + 2)
        /\ result.doubled > 0 => result.f32 = result.was.f32 /\ result.f64 = result.was.f64
        /\ result.mantissa = <<>> => ~result.f32 /\ ~result.f64
        /\ ~(result.f32 /\ result.f64)

C27_Witness ==
    /\ HalfwayDone /\ result.doubled = 1 /\ result.f32 /\ result.was.f32
    /\ result.mantissa = BigFromInt(33554434)

(***************************************************************************)
(* C29.  If parse_float returns the mantissa 0 then its truncation flag is *)
(* false and every digit of the number was '0': the early return of 0.0 in *)
(* the driver never discards a digit that is not zero.                     *)
(***************************************************************************)
C29_ZeroMantissa ==
    (FloatDone /\ result.mantissa = <<>>) => ~result.truncated /\ ~DenotesNonZero

C29_Witness ==
    /\ FloatDone /\ result.mantissa = <<>> /\ ~result.truncated
    /\ HasDot /\ Len(IntegerDigits) > FloorLog(ty.bits, radix) + 1
    /\ FractionBytes > FloorLog(ty.bits, radix) + 1

(***************************************************************************)
(* C30.  The end position parse_mantissa returns does not depend on the    *)
(* width of the mantissa or on truncation: the 64-bit and the 128-bit      *)
(* parse of the same bytes return the same position, the index just past   *)
(* the longest prefix of the form digits ['.' digits].                     *)
(***************************************************************************)
BothParsed == op = "mantissa" /\ pc = "done" /\ surface = "both_widths"

C30_EndPosition ==
    BothParsed =>
        /\ result.narrow.pos = result.wide.pos
        /\ result.narrow.pos = FractionEnd

C30_Witness ==
    /\ BothParsed /\ result.narrow.truncated /\ ~result.wide.truncated
    /\ HasDot /\ FractionBytes > 0 /\ FractionEnd < Len(bytes)
    /\ result.wide.pos = FractionEnd

====
